---- MODULE Spec2Model ----
(***************************************************************************)
(* Model of the document-ingestion pipeline of Portfolio_Chatbot           *)
(* (src/backend/providers.py, src/backend/storage.py and the OAuth         *)
(* callbacks, src/backend/chat_router.py): the process-wide download        *)
(* semaphore, the token store and the token lifecycle of the three         *)
(* provider adapters, the item loops of the adapters, the content          *)
(* extractor, the orchestrator chat_ask with the document cache, and the   *)
(* accounts and session-guarded endpoints (src/backend/app.py,             *)
(* src/backend/auth/signup.py).                                            *)
(*                                                                         *)
(* The program runs on one asyncio event loop: the code between two awaits *)
(* of a coroutine is one atomic step, and every outbound HTTP call is a    *)
(* suspension point.  Each action below is one such step.                  *)
(***************************************************************************)
EXTENDS Integers, FiniteSets, Sequences, TLC

VARIABLES
    permits,      \* value of _DL_SEMAPHORE
    dl,           \* the byte-download calls: [pc, holds, res]
    now,          \* int(time.time())
    ticks,        \* how often the clock has advanced
    issued,       \* token responses handed out by the providers' token endpoints
    configured,   \* per provider: client id and secret are set in the environment
    reqProvider,  \* the provider the requests of this run name (AskRequest.provider)
    conn,         \* table user_connections of one user: provider -> row or NoRow
    lastWrite,    \* history: per provider, the token write that produced the stored row
    tasks,        \* the enumerate_from_link calls in progress
    run,          \* one enumerate_from_link call with its listing and its item loop
    ext,          \* one call of text_preview: its arguments and its outcome
    ask,          \* one call of chat_ask: its locals and what it has called
    history,      \* table chat_history of one user
    twin,         \* two calls of chat_ask side by side, each with its own document_cache
    users,        \* table "user"
    session,      \* request.session of one browser
    http          \* the last response of an endpoint of app.py or of the signup router

vars == <<permits, dl, now, ticks, issued, configured, reqProvider, conn, lastWrite, tasks,
          run, ext, ask, history, twin, users, session, http>>

throttleVars == <<permits, dl>>
tokenVars == <<now, ticks, issued, configured, reqProvider, conn, lastWrite, tasks>>
ingestVars == <<run, ext, ask, history>>
cacheVars == <<twin>>
accountVars == <<users, session, http>>

(***************************************************************************)
(* Bounds of the model                                                     *)
(***************************************************************************)
NumDownloads == 5
NumTasks == 2
MaxIssued == 2
MaxTicks == 1

Downloads == 1..NumDownloads
Tasks == 1..NumTasks

(***************************************************************************)
(* The download throttle: _DL_SEMAPHORE and _http_get_bytes                *)
(***************************************************************************)
DL_PERMITS == 4

\* a download call is idle, blocked in acquire() ("waiting"), has its GET in
\* flight ("get": _http_get_bytes, used for OneDrive share items; "gfile":
\* GoogleProvider._download_file; "gexport": GoogleProvider._export_native_file)
\* or has returned ("done"); waited: the call in progress was blocked in
\* acquire()
IdleDl == [pc |-> "idle", holds |-> FALSE, res |-> "none", waited |-> FALSE]

\* asyncio.Semaphore.acquire proceeds only while the value is positive
SemLockedNever(p) == FALSE
SemLocked(p) == p <= 0

\* asyncio.Semaphore.release, run by __aexit__ of "async with _DL_SEMAPHORE"
\* on every way out of the block
SemReleaseSkipped(p) == p
SemRelease(p) == p + 1

\* the permit given back when the GET raised and "except Exception" returned b""
SemReleaseOnRaise(p) == SemRelease(p)

\* "async with _DL_SEMAPHORE:" entered by a call of _http_get_bytes: the permit
\* is taken at once when one is free, otherwise the call blocks in acquire()
HttpGetBytesEnter(d) ==
    /\ dl[d].pc = "idle"
    /\ IF SemLocked(permits)
         THEN /\ dl' = [dl EXCEPT ![d] = [@ EXCEPT !.pc = "waiting", !.waited = TRUE]]
              /\ UNCHANGED permits
         ELSE /\ dl' = [dl EXCEPT ![d] = [@ EXCEPT !.pc = "get", !.holds = TRUE]]
              /\ permits' = permits - 1
    /\ UNCHANGED <<tokenVars, ingestVars, cacheVars, accountVars>>

\* a blocked acquire() returns once a permit is free; the GET is issued
HttpGetBytesAcquire(d) ==
    /\ dl[d].pc = "waiting"
    /\ ~SemLocked(permits)
    /\ permits' = permits - 1
    /\ dl' = [dl EXCEPT ![d] = [@ EXCEPT !.pc = "get", !.holds = TRUE]]
    /\ UNCHANGED <<tokenVars, ingestVars, cacheVars, accountVars>>

\* the GET of _http_get_bytes answers 200: r.content is returned
HttpGetBytesOk(d) ==
    /\ dl[d].pc = "get"
    /\ permits' = SemRelease(permits)
    /\ dl' = [dl EXCEPT ![d] = [IdleDl EXCEPT !.pc = "done", !.res = "bytes"]]
    /\ UNCHANGED <<tokenVars, ingestVars, cacheVars, accountVars>>

\* the GET answers another status: b"" is returned
HttpGetBytesNon200(d) ==
    /\ dl[d].pc = "get"
    /\ permits' = SemRelease(permits)
    /\ dl' = [dl EXCEPT ![d] = [IdleDl EXCEPT !.pc = "done", !.res = "empty"]]
    /\ UNCHANGED <<tokenVars, ingestVars, cacheVars, accountVars>>

\* the GET raises (timeout, network error): "except Exception: return b''"
HttpGetBytesRaise(d) ==
    /\ dl[d].pc = "get"
    /\ permits' = SemReleaseOnRaise(permits)
    /\ dl' = [dl EXCEPT ![d] = [IdleDl EXCEPT !.pc = "done", !.res = "caught"]]
    /\ UNCHANGED <<tokenVars, ingestVars, cacheVars, accountVars>>

\* GoogleProvider._download_file: the GET is issued on a client of its own,
\* _DL_SEMAPHORE is not touched
GoogleDownloadFile(d) ==
    /\ dl[d].pc = "idle"
    /\ dl' = [dl EXCEPT ![d] = [@ EXCEPT !.pc = "gfile"]]
    /\ UNCHANGED permits
    /\ UNCHANGED <<tokenVars, ingestVars, cacheVars, accountVars>>

\* GoogleProvider._export_native_file: likewise
GoogleExportNativeFile(d) ==
    /\ dl[d].pc = "idle"
    /\ dl' = [dl EXCEPT ![d] = [@ EXCEPT !.pc = "gexport"]]
    /\ UNCHANGED permits
    /\ UNCHANGED <<tokenVars, ingestVars, cacheVars, accountVars>>

\* the Google GET ends: content on 200, None otherwise, or the exception
\* propagates to the try block of enumerate_from_link
GoogleDownloadEnd(d) ==
    /\ dl[d].pc \in {"gfile", "gexport"}
    /\ \E r \in {"bytes", "empty", "raised"} :
          dl' = [dl EXCEPT ![d] = [IdleDl EXCEPT !.pc = "done", !.res = r]]
    /\ UNCHANGED permits
    /\ UNCHANGED <<tokenVars, ingestVars, cacheVars, accountVars>>

\* the caller has consumed the result; the slot serves a later download
DownloadReturn(d) ==
    /\ dl[d].pc = "done"
    /\ dl' = [dl EXCEPT ![d] = IdleDl]
    /\ UNCHANGED permits
    /\ UNCHANGED <<tokenVars, ingestVars, cacheVars, accountVars>>

(***************************************************************************)
(* The token store: table user_connections (one user)                      *)
(***************************************************************************)
Providers == {"google", "onedrive", "notion"}
Refreshable == {"google", "onedrive"}

\* NULL of a column, None of a dict entry
None == 0

\* the 60 seconds of "expires_at < int(time.time()) + 60"
Margin == 60
\* int(time.time()) when the model starts
Epoch0 == 1000

\* expires_in values of the token endpoints, clock steps, quick links
ExpiresIns == {59, 3600}
TickSteps == {3600}
Urls == {1}

\* meta_json: {} after json.dumps(meta or {}); login is the login_at/name part
\* written by the OAuth callbacks, quick_link the entry of set_quick_link
EmptyMeta == [login |-> FALSE, quick_link |-> None]
LoginMeta == [login |-> TRUE, quick_link |-> None]

NoRow == [exists |-> FALSE, access_token |-> None, refresh_token |-> None,
          token_type |-> "Bearer", scope |-> None, expires_at |-> None,
          meta |-> EmptyMeta, provider_account_id |-> None,
          provider_account_email |-> None]

NoWrite == [kind |-> "none", at |-> 0, expires_in |-> None]

\* COALESCE(excluded.refresh_token, user_connections.refresh_token)
CoalesceExcludedOnly(new, old) == new
Coalesce(new, old) == IF new # None THEN new ELSE old

\* what save_connection writes for the account and meta columns:
\* "meta_json = excluded.meta_json, provider_account_id = excluded...."
SavedAccountColumns(row, account_id, account_email, meta) ==
    [meta |-> meta, provider_account_id |-> account_id,
     provider_account_email |-> account_email]

\* save_connection: INSERT ... ON CONFLICT(user_name, provider) DO UPDATE SET ...
SaveConnection(row, token, account_id, account_email, meta) ==
    LET acc == SavedAccountColumns(row, account_id, account_email, meta) IN
    [exists |-> TRUE,
     access_token |-> token.access_token,
     refresh_token |-> IF row.exists
                         THEN Coalesce(token.refresh_token, row.refresh_token)
                         ELSE token.refresh_token,
     token_type |-> token.token_type,
     scope |-> token.scope,
     expires_at |-> token.expires_at,
     meta |-> acc.meta,
     provider_account_id |-> acc.provider_account_id,
     provider_account_email |-> acc.provider_account_email]

\* _extract_tokens(_read_token_row(user, provider)): "expires_at or 0"
ExtractTokens(row) ==
    [access_token |-> row.access_token, refresh_token |-> row.refresh_token,
     expires_at |-> row.expires_at, scope |-> row.scope, token_type |-> "Bearer"]

\* the test of _get_valid_token: (tok.get("expires_at") or 0) < int(time.time()) + 60
NeedsRefreshInverted(exp, t) == exp > t + Margin
NeedsRefreshSignSlip(exp, t) == exp < t - Margin
NeedsRefresh(exp, t) == exp < t + Margin

\* new_tokens of refresh_token(): "refresh_token": tok.get("refresh_token") or rt,
\* "expires_at": now + int(tok.get("expires_in", 3600))
RefreshTokens(rt, resp, t) ==
    [access_token |-> resp.access_token,
     refresh_token |-> IF resp.refresh_token # None THEN resp.refresh_token ELSE rt,
     token_type |-> "Bearer",
     scope |-> resp.scope,
     expires_at |-> t + resp.expires_in]

\* tok of the OAuth callbacks of Google and OneDrive:
\* tok["expires_at"] = int(time.time()) + int(tok["expires_in"]) - 60
CallbackTokens(resp, t) ==
    [access_token |-> resp.access_token,
     refresh_token |-> resp.refresh_token,
     token_type |-> "Bearer",
     scope |-> resp.scope,
     expires_at |-> t + resp.expires_in - 60]

\* token={"access_token": access_token} of the Notion callback
NotionTokens(resp) ==
    [access_token |-> resp.access_token, refresh_token |-> None,
     token_type |-> "Bearer", scope |-> None, expires_at |-> None]

\* a 200 response of a token endpoint: the n-th token handed out
TokenResponses(n) ==
    [access_token : {n}, refresh_token : {None, n}, scope : {n}, expires_in : ExpiresIns]

\* the token handed out before the run, to the callback that stored StoredRows
StoredToken == MaxIssued + 1

\* the rows an OAuth callback of provider p stores at time t
CallbackRows(p, n, t) ==
    {SaveConnection(NoRow, IF p = "notion" THEN NotionTokens(resp)
                                           ELSE CallbackTokens(resp, t), 1, 1, LoginMeta) :
        resp \in IF p = "notion"
                   THEN {r \in TokenResponses(n) :
                            r.refresh_token = None /\ r.expires_in = 3600}
                   ELSE TokenResponses(n)}

(***************************************************************************)
(* enumerate_from_link of the three adapters, one call per task            *)
(***************************************************************************)
IdleTask ==
    [pc |-> "idle", prov |-> "google", linkOk |-> FALSE, stage |-> "none",
     rt |-> None, token |-> None, attempt |-> 0, gvt |-> 0,
     nRefresh |-> 0, nAuth |-> 0, refAtFirstAuth |-> 0,
     exp1Start |-> FALSE, exp1Read |-> FALSE, rtRead |-> FALSE, gvtFail |-> FALSE,
     marginAtRead |-> FALSE, after401 |-> FALSE, nRef401 |-> 0,
     second401 |-> FALSE, result |-> "none"]

\* the call returns: its locals (link, token, refresh token read) are gone
Finish(tk, res) ==
    [tk EXCEPT !.pc = "done", !.result = res, !.linkOk = FALSE, !.stage = "none",
               !.rt = None]

\* an exception leaves the adapter: GoogleProvider.enumerate_from_link lets it
\* propagate, OneDriveProvider.enumerate_from_link catches it around
\* list_my_drive and returns docs, which is [] on that path
Raise(tk) ==
    IF tk.prov = "onedrive" THEN Finish(tk, "empty") ELSE Finish(tk, "raised")

\* an authenticated call (metadata, listing) is issued with the token in hand
IssueCall(tk, token, pc) ==
    [tk EXCEPT !.pc = pc, !.token = token, !.nAuth = @ + 1,
               !.refAtFirstAuth = IF tk.nAuth = 0 THEN tk.nRefresh ELSE @,
               !.attempt = IF pc = "list" THEN @ + 1 ELSE @]

\* what follows _get_valid_token.  Google: "if not token: return []", then
\* _extract_id_from_link, then _get_file_metadata.  OneDrive list_my_drive:
\* the listing GET, whatever the token
AfterToken(tk, token) ==
    IF tk.prov = "google"
      THEN IF token = None \/ ~tk.linkOk
             THEN Finish([tk EXCEPT !.token = token], "empty")
             ELSE IssueCall(tk, token, "meta")
      ELSE IssueCall(tk, token, "list")

\* refresh_token() up to its POST.  No refresh token stored: Google logs and
\* returns (the caller goes on with the stored access token), OneDrive raises.
\* No client id or secret: both raise RuntimeError.
RefreshStart(tk, row, stage) ==
    LET rt == ExtractTokens(row).refresh_token
        failed == [tk EXCEPT !.gvtFail = @ \/ stage = "gvt"]
    IN  IF rt = None
          THEN IF tk.prov = "google"
                 THEN AfterToken(failed, ExtractTokens(row).access_token)
                 ELSE Raise(failed)
          ELSE IF ~configured[tk.prov]
                 THEN Raise(tk)
                 ELSE [tk EXCEPT !.pc = "refresh", !.stage = stage, !.rt = rt,
                                 !.nRefresh = @ + 1,
                                 !.nRef401 = IF tk.after401 THEN @ + 1 ELSE @]

\* _get_valid_token up to its first await
GetValidToken(tk, row, stage) ==
    LET tok == ExtractTokens(row)
        tk2 == [tk EXCEPT !.gvt = @ + 1,
                          !.exp1Read = IF tk.gvt = 0
                                         THEN row.exists /\ tok.expires_at = now - 1
                                         ELSE @,
                          !.rtRead = IF tk.gvt = 0 THEN tok.refresh_token # None ELSE @,
                          !.marginAtRead =
                              @ \/ (NeedsRefresh(tok.expires_at, now) # (tok.expires_at < now))]
    IN  IF NeedsRefresh(tok.expires_at, now)
          THEN RefreshStart(tk2, row, stage)
          ELSE AfterToken(tk2, tok.access_token)

\* time passes
Tick ==
    /\ ticks < MaxTicks
    /\ ticks' = ticks + 1
    /\ \E step \in TickSteps : now' = now + step
    /\ UNCHANGED <<issued, configured, reqProvider, conn, lastWrite, tasks>>
    /\ UNCHANGED <<throttleVars, ingestVars, cacheVars, accountVars>>

\* the OAuth callbacks (gdrive/auth_google.py, onedrive/auth_onedrive.py,
\* notion/auth_notion.py): token exchange, then save_connection with the
\* account id, the account e-mail and the login meta
OAuthCallback(p) ==
    /\ issued < MaxIssued
    /\ configured[p]
    /\ \E resp \in TokenResponses(issued + 1) :
          LET token == IF p = "notion" THEN NotionTokens(resp)
                                        ELSE CallbackTokens(resp, now)
          IN  /\ conn' = [conn EXCEPT ![p] = SaveConnection(conn[p], token, 1, 1, LoginMeta)]
              /\ lastWrite' = [lastWrite EXCEPT ![p] =
                     [kind |-> "callback", at |-> now,
                      expires_in |-> IF p = "notion" THEN None ELSE resp.expires_in]]
    /\ issued' = issued + 1
    /\ UNCHANGED <<now, ticks, configured, reqProvider, tasks>>
    /\ UNCHANGED <<throttleVars, ingestVars, cacheVars, accountVars>>

\* update_connection_meta(user, provider, {"quick_link": url}):
\* "UPDATE user_connections SET meta_json = ?, updated_at = ?"
UpdateConnectionMetaAllColumns(row, url) ==
    [NoRow EXCEPT !.exists = TRUE, !.meta = [row.meta EXCEPT !.quick_link = url]]
UpdateConnectionMeta(row, url) ==
    [row EXCEPT !.meta = [@ EXCEPT !.quick_link = url]]

\* POST /connections/quick-link: 404 without a row, else update_connection_meta
SetQuickLink(p) ==
    /\ conn[p].exists
    /\ \E url \in Urls :
          conn' = [conn EXCEPT ![p] = UpdateConnectionMeta(@, url)]
    /\ UNCHANGED <<now, ticks, issued, configured, reqProvider, lastWrite, tasks>>
    /\ UNCHANGED <<throttleVars, ingestVars, cacheVars, accountVars>>

\* DELETE /connections/{provider}: delete_connection
DeleteConnection(p) ==
    /\ conn[p].exists
    /\ conn' = [conn EXCEPT ![p] = NoRow]
    /\ lastWrite' = [lastWrite EXCEPT ![p] = NoWrite]
    /\ UNCHANGED <<now, ticks, issued, configured, reqProvider, tasks>>
    /\ UNCHANGED <<throttleVars, ingestVars, cacheVars, accountVars>>

\* get_documents_from_provider -> enumerate_from_link, up to its first await.
\* Google: _get_valid_token.  OneDrive: the GET of the public shares API.
\* Notion: _get_token ("if not token: return []"), then the search POST.
EnumerateStart(t, p) ==
    /\ tasks[t].pc = "idle"
    /\ \A u \in Tasks : u < t => tasks[u].pc # "idle"
    /\ \E linkOk \in IF p = "google" THEN BOOLEAN ELSE {TRUE} :
          LET tk == [IdleTask EXCEPT !.prov = p, !.linkOk = linkOk,
                        !.exp1Start = conn[p].exists /\ conn[p].expires_at = now - 1]
          IN  tasks' = [tasks EXCEPT ![t] =
                 CASE p = "google" -> GetValidToken(tk, conn[p], "gvt")
                   [] p = "onedrive" -> [tk EXCEPT !.pc = "share"]
                   [] OTHER -> IF ExtractTokens(conn[p]).access_token = None
                                 THEN Finish(tk, "empty")
                                 ELSE IssueCall(tk, ExtractTokens(conn[p]).access_token, "search")]
    /\ UNCHANGED <<now, ticks, issued, configured, reqProvider, conn, lastWrite>>
    /\ UNCHANGED <<throttleVars, ingestVars, cacheVars, accountVars>>

\* a refresh_token() that posts again when the token endpoint rejected the
\* request
RefreshRejectedRetries(t) ==
    /\ tasks[t].pc = "refresh"
    /\ tasks' = [tasks EXCEPT ![t] = RefreshStart(@, conn[@.prov], @.stage)]
    /\ UNCHANGED <<now, ticks, issued, configured, reqProvider, conn, lastWrite>>
    /\ UNCHANGED <<throttleVars, ingestVars, cacheVars, accountVars>>

\* the token endpoint answers the POST of refresh_token() with a status other
\* than 200.  Google: LOG.error and return, _get_valid_token reads the row again
\* and returns its access token.  OneDrive: RuntimeError
RefreshRejected(t) ==
    /\ tasks[t].pc = "refresh"
    /\ LET tk == [tasks[t] EXCEPT !.gvtFail = @ \/ tasks[t].stage = "gvt"]
       IN  tasks' = [tasks EXCEPT ![t] =
              IF tk.prov = "google"
                THEN AfterToken(tk, ExtractTokens(conn[tk.prov]).access_token)
                ELSE Raise(tk)]
    /\ UNCHANGED <<now, ticks, issued, configured, reqProvider, conn, lastWrite>>
    /\ UNCHANGED <<throttleVars, ingestVars, cacheVars, accountVars>>

\* the token endpoint answers 200: save_connection(user, name, new_tokens), then
\* the caller goes on: _get_valid_token reads the row again and returns its
\* access token; after the 401 of list_my_drive, _get_valid_token is called
RefreshGranted(t) ==
    /\ tasks[t].pc = "refresh"
    /\ issued < MaxIssued
    /\ \E resp \in TokenResponses(issued + 1) :
          LET tk == tasks[t]
              p == tk.prov
              row == SaveConnection(conn[p], RefreshTokens(tk.rt, resp, now),
                                    None, None, EmptyMeta)
          IN  /\ conn' = [conn EXCEPT ![p] = row]
              /\ lastWrite' = [lastWrite EXCEPT ![p] =
                     [kind |-> "refresh", at |-> now, expires_in |-> resp.expires_in]]
              /\ tasks' = [tasks EXCEPT ![t] =
                     IF tk.stage = "r401"
                       THEN GetValidToken(tk, row, "gvt2")
                       ELSE AfterToken(tk, ExtractTokens(row).access_token)]
    /\ issued' = issued + 1
    /\ UNCHANGED <<now, ticks, configured, reqProvider>>
    /\ UNCHANGED <<throttleVars, ingestVars, cacheVars, accountVars>>

\* GoogleProvider._get_file_metadata answers: None on a status other than 200
\* ("if not meta: return []"), a folder (then _list_folder is called) or a file
\* (then its content is fetched)
MetaResponse(t) ==
    /\ tasks[t].pc = "meta"
    /\ \E r \in {"non200", "folder", "file"} :
          tasks' = [tasks EXCEPT ![t] =
             CASE r = "non200" -> Finish(@, "empty")
               [] r = "folder" -> IssueCall(@, @.token, "list")
               [] OTHER -> [@ EXCEPT !.pc = "fetch"]]
    /\ UNCHANGED <<now, ticks, issued, configured, reqProvider, conn, lastWrite>>
    /\ UNCHANGED <<throttleVars, ingestVars, cacheVars, accountVars>>

\* the listing GET answers.  Google _list_folder: [] on a status other than 200.
\* OneDrive list_my_drive: a 401 leads to refresh_token(), _get_valid_token and
\* the same GET again; then "if r.status_code != 200: return []"
ListResponse(t) ==
    /\ tasks[t].pc = "list"
    /\ \E r \in {"401", "500", "none", "some"} :
          LET tk == tasks[t] IN
          tasks' = [tasks EXCEPT ![t] =
             IF tk.prov = "onedrive"
               THEN CASE r = "401" /\ tk.attempt = 1 ->
                           RefreshStart([tk EXCEPT !.after401 = TRUE], conn[tk.prov], "r401")
                      [] r = "401" /\ tk.attempt # 1 ->
                           Finish([tk EXCEPT !.second401 = TRUE], "empty")
                      [] r \in {"500", "none"} -> Finish(tk, "empty")
                      [] OTHER -> Finish(tk, "docs")
               ELSE IF r = "some" THEN [tk EXCEPT !.pc = "fetch"]
                                  ELSE Finish(tk, "empty")]
    /\ UNCHANGED <<now, ticks, issued, configured, reqProvider, conn, lastWrite>>
    /\ UNCHANGED <<throttleVars, ingestVars, cacheVars, accountVars>>

\* the public shares GET of OneDriveProvider.enumerate_from_link answers: with
\* children (their content is fetched, "if docs: return docs") or not (status
\* other than 200, no children, an exception): list_my_drive is called
ShareResponse(t) ==
    /\ tasks[t].pc = "share"
    /\ \E withChildren \in BOOLEAN :
          tasks' = [tasks EXCEPT ![t] =
             IF withChildren THEN [@ EXCEPT !.pc = "fetch"]
                             ELSE GetValidToken(@, conn[@.prov], "gvt")]
    /\ UNCHANGED <<now, ticks, issued, configured, reqProvider, conn, lastWrite>>
    /\ UNCHANGED <<throttleVars, ingestVars, cacheVars, accountVars>>

\* the search POST of NotionProvider.search_pages answers
SearchResponse(t) ==
    /\ tasks[t].pc = "search"
    /\ \E r \in {"non200", "none", "some"} :
          tasks' = [tasks EXCEPT ![t] = Finish(@, IF r = "some" THEN "docs" ELSE "empty")]
    /\ UNCHANGED <<now, ticks, issued, configured, reqProvider, conn, lastWrite>>
    /\ UNCHANGED <<throttleVars, ingestVars, cacheVars, accountVars>>

\* the content of the listed items has been fetched; the documents are returned
FetchDone(t) ==
    /\ tasks[t].pc = "fetch"
    /\ tasks' = [tasks EXCEPT ![t] = Finish(@, "docs")]
    /\ UNCHANGED <<now, ticks, issued, configured, reqProvider, conn, lastWrite>>
    /\ UNCHANGED <<throttleVars, ingestVars, cacheVars, accountVars>>

(***************************************************************************)
(* The item loops of the adapters: what enumerate_from_link does with the  *)
(* listing it obtained.  One call, issued with a token in hand.            *)
(***************************************************************************)
\* items of a listing, documents of a result
MaxItems == 2

\* MAX_PREVIEW_BYTES = 8 * 1024 * 1024
MAX_PREVIEW_BYTES == 8388608
\* a "size" entry int() cannot parse
NonNumeric == -1

\* strings are sequences of characters.  The texts text_preview can return for
\* downloaded bytes: "" (nothing decodable), "[binary N bytes]", content
PreviewTexts == {<<>>, <<"[", "b">>, <<"a">>, <<"a", "[">>}

\* f"[유형: {mt}]", "[OneDrive file]", "[OneDrive item]", f"[Notion {object}]"
TypePlaceholder == <<"[", "t">>
OneDriveFilePlaceholder == <<"[", "f">>
OneDriveItemPlaceholder == <<"[", "i">>
NotionPlainText == <<"a">>
NotionPlaceholder == <<"[", "n">>
\* "content": "" of a OneDrive folder entry
FolderContent == <<>>

\* the slice s[:n]
Take(s, n) == SubSeq(s, 1, IF n < Len(s) THEN n ELSE Len(s))

\* "preview or <placeholder>"
OrPlaceholder(preview, placeholder) == IF preview # <<>> THEN preview ELSE placeholder

\* the n-th entry of "files" of a Drive folder listing (or the metadata of the
\* linked file): the id may be missing, the size may be absent (None), a
\* number or not a number; native is a mimeType "application/vnd.google-apps.*"
GoogleFiles(n) ==
    [id : {n, None}, name : {1}, native : BOOLEAN,
     size : {None, 1, MAX_PREVIEW_BYTES + 1, NonNumeric}]

\* the n-th child of a OneDrive share: dl is its "@content.downloadUrl", size
\* the "size" the provider reports for it
OneDriveChildren(n) ==
    [id : {n, None}, name : {1}, folder : BOOLEAN, dl : BOOLEAN,
     size : {1, MAX_PREVIEW_BYTES + 1}]

\* the n-th result of the Notion search
NotionResults(n) == [id : {n}, object : {"page", "database"}]

\* the entries of the user's own root folder, as list_my_drive reads them
OneDriveRootEntries(n) ==
    [id : {MaxItems + n, None}, name : {1}, folder : BOOLEAN]

\* the listings of at most MaxItems entries; Entries[n] is the set of the
\* possible n-th entries
Listings(Entries) ==
    UNION {{l \in [1..n -> UNION {Entries[i] : i \in 1..n}] :
               \A i \in 1..n : l[i] \in Entries[i]} : n \in 0..MaxItems}

\* a link (locator) by the text before its last token and by that token, a run
\* of len characters of [a-zA-Z0-9_-] that names item id; "" is the empty link
LinkPrefixes == {"", "/folders/", "id=", "/other/"}
LinkTokenLens == {0, 3, 20}
Links == [prefix : LinkPrefixes, len : LinkTokenLens, id : {1}]
EmptyLink == [prefix |-> "", len |-> 0, id |-> 1]

\* the patterns of _extract_id_from_link that capture ([a-zA-Z0-9_-]+), and the
\* length of the bare id of its last test, ^[a-zA-Z0-9_-]{20,}$
LINK_PATTERNS ==
    {"/folders/", "/file/d/", "/document/d/", "/spreadsheets/d/", "/presentation/d/", "id="}
BARE_ID_MIN == 20

\* GoogleProvider._extract_id_from_link(link): the id, or None
ExtractIdFromLink(link) ==
    IF link.prefix \in LINK_PATTERNS /\ link.len >= 1 THEN link.id
    ELSE IF link.prefix = "" /\ link.len >= BARE_ID_MIN THEN link.id
    ELSE None

\* the values of max_files: a listing can hold more entries than asked for
MaxFilesValues == 1..MaxItems

\* listed: a listing with entries was obtained (files of a folder, children of
\* a share, search results); got401: the call the last response answered with
\* 401, if it did; fetched: the items a byte download was issued for; root:
\* what list_my_drive gave enumerate_from_link (its documents, or that it raised)
NoRoot == [called |-> FALSE, raised |-> FALSE, docs |-> <<>>]

IdleRun ==
    [pc |-> "idle", prov |-> "google", items |-> <<>>, i |-> 1, docs |-> <<>>,
     result |-> "none", listed |-> FALSE, got401 |-> "none", fellBack |-> FALSE,
     fetched |-> {}, link |-> EmptyLink, called |-> FALSE, max_files |-> MaxItems,
     root |-> NoRoot]

\* the GET of a byte download (export, download, _http_get_bytes) goes out
RunFetch(r, pc) == [r EXCEPT !.pc = pc, !.fetched = @ \cup {r.i}]

\* "return docs" / an exception leaves enumerate_from_link
RunReturn(r, docs) == [r EXCEPT !.pc = "done", !.result = "returned", !.docs = docs]
RunRaise(r) == [r EXCEPT !.pc = "done", !.result = "raised"]

\* docs.append({...}) and on to the next item
RunAppend(r, doc) == [r EXCEPT !.docs = Append(@, doc), !.i = @ + 1]

\* the loop "for f in files" of GoogleProvider.enumerate_from_link (and its copy
\* for a single file) from item r.i up to the next await or the return.
\* int(f.get("size") or 0) stands before the try block; f["id"] is evaluated
\* inside it (KeyError caught) and again in docs.append (KeyError propagates)
RECURSIVE GoogleLoop(_)
GoogleLoop(r) ==
    IF r.i > Len(r.items)
      THEN RunReturn(r, r.docs)
      ELSE LET f == r.items[r.i] IN
           CASE f.size = NonNumeric -> RunRaise(r)
             [] f.size # NonNumeric /\ f.id = None -> RunRaise(r)
             [] f.size # NonNumeric /\ f.id # None /\ f.native ->
                    RunFetch(r, "export")
             [] f.size # NonNumeric /\ f.id # None /\ ~f.native
                   /\ f.size <= MAX_PREVIEW_BYTES ->
                    RunFetch(r, "download")
             [] OTHER ->
                    GoogleLoop(RunAppend(r, [id |-> f.id, title |-> f.name,
                                             content |-> OrPlaceholder(<<>>, TypePlaceholder)]))

\* list_my_drive is called after the share lookup: "docs = await
\* self.list_my_drive(...)" inside try/except; the documents collected from the
\* share so far stay in docs unless the call returns
OneDriveFallback(r) ==
    [r EXCEPT !.pc = "mydrive", !.fellBack = TRUE]

\* the loop "for ch in children[:max_files]" of
\* OneDriveProvider.enumerate_from_link from item r.i up to the next await, to
\* "if docs: return docs" or to the except clause around the share lookup
RECURSIVE OneDriveLoop(_)
OneDriveLoop(r) ==
    IF r.i > Len(r.items)
      THEN IF r.docs # <<>> THEN RunReturn(r, r.docs) ELSE OneDriveFallback(r)
      ELSE LET ch == r.items[r.i] IN
           CASE ch.folder /\ ch.id = None -> OneDriveFallback(r)
             [] ch.folder /\ ch.id # None ->
                    OneDriveLoop(RunAppend(r, [id |-> ch.id, title |-> ch.name,
                                               content |-> FolderContent]))
             [] ~ch.folder /\ ch.dl -> RunFetch(r, "get")
             [] ~ch.folder /\ ~ch.dl /\ ch.id = None -> OneDriveFallback(r)
             [] OTHER ->
                    OneDriveLoop(RunAppend(r, [id |-> ch.id, title |-> ch.name,
                                               content |-> OrPlaceholder(<<>>, OneDriveFilePlaceholder)]))

\* the loop "for it in items[:limit]" of list_my_drive: it["id"] raises on a
\* missing id, and enumerate_from_link catches what list_my_drive raises
RECURSIVE MyDriveDocs(_, _)
MyDriveDocs(items, n) ==
    IF n = 0 THEN <<>>
    ELSE Append(MyDriveDocs(items, n - 1),
                [id |-> items[n].id, title |-> items[n].name,
                 content |-> IF items[n].folder THEN FolderContent
                                                ELSE OneDriveItemPlaceholder])

\* docs of search_pages: "content": f"[Notion {item.get('object', 'page')}]"
RECURSIVE NotionDocs(_, _)
NotionDocs(items, n) ==
    IF n = 0 THEN <<>>
    ELSE Append(NotionDocs(items, n - 1),
                [id |-> items[n].id, title |-> 1, content |-> NotionPlaceholder])

\* enumerate_from_link(user_name, link, max_files) is called with a usable
\* token.  Google: "item_id = self._extract_id_from_link(link); if not item_id:
\* return []", else _get_file_metadata.  OneDrive: the GET of the shares API
\* for the share id made of the link.  Notion: the search POST, link ignored
ItemsStart(p) ==
    /\ run.pc = "idle"
    /\ \E link \in Links, max_files \in MaxFilesValues :
          LET r == [IdleRun EXCEPT !.prov = p, !.link = link, !.max_files = max_files] IN
          run' = CASE p = "google" /\ ExtractIdFromLink(link) = None -> RunReturn(r, <<>>)
                   [] p = "google" /\ ExtractIdFromLink(link) # None ->
                          [r EXCEPT !.pc = "meta", !.called = TRUE]
                   [] p = "onedrive" -> [r EXCEPT !.pc = "share", !.called = TRUE]
                   [] OTHER -> [r EXCEPT !.pc = "search", !.called = TRUE]
    /\ UNCHANGED <<ext, ask, history>>
    /\ UNCHANGED <<throttleVars, tokenVars, cacheVars, accountVars>>

\* _get_file_metadata answers: None on another status than 200 ("if not meta:
\* return []", no refresh, no second request), the metadata of a folder
\* (_list_folder is called) or of a file (the single-file branch, whose id is
\* the one taken from the link); an exception of the request propagates
GoogleMetaResponse ==
    /\ run.pc = "meta"
    /\ \/ \E st \in {"401", "500"} :
             run' = RunReturn([run EXCEPT !.got401 = IF st = "401" THEN "meta" ELSE @], <<>>)
       \/ run' = RunRaise(run)
       \/ run' = [run EXCEPT !.pc = "list"]
       \/ \E f \in GoogleFiles(1) :
             /\ f.id # None
             /\ run' = GoogleLoop([run EXCEPT !.items = <<f>>])
    /\ UNCHANGED <<ext, ask, history>>
    /\ UNCHANGED <<throttleVars, tokenVars, cacheVars, accountVars>>

\* _list_folder answers: [] on another status than 200, else the files
GoogleListResponse ==
    /\ run.pc = "list"
    /\ \/ \E st \in {"401", "500"} :
             run' = RunReturn([run EXCEPT !.got401 = IF st = "401" THEN "list" ELSE @], <<>>)
       \/ run' = RunRaise(run)
       \/ \E files \in Listings([n \in 1..MaxItems |-> GoogleFiles(n)]) :
             run' = GoogleLoop([run EXCEPT !.items = files, !.listed = TRUE])
    /\ UNCHANGED <<ext, ask, history>>
    /\ UNCHANGED <<throttleVars, tokenVars, cacheVars, accountVars>>

\* _export_native_file / _download_file of the current item ends: bytes (then
\* text_preview), b"", None on another status than 200, or an exception the try
\* block swallows; the document is appended and the loop goes on
GoogleItemResponse ==
    /\ run.pc \in {"export", "download"}
    /\ \E r \in {"data", "empty", "401", "500", "raised"} :
       \E text \in PreviewTexts :
          LET f == run.items[run.i]
              preview == IF r = "data" THEN text ELSE <<>>
              r2 == [run EXCEPT !.got401 = IF r = "401" THEN run.pc ELSE "none"]
          IN  /\ r # "data" => text = <<>>
              /\ run' = GoogleLoop(RunAppend(r2,
                           [id |-> f.id, title |-> f.name,
                            content |-> OrPlaceholder(preview, TypePlaceholder)]))
    /\ UNCHANGED <<ext, ask, history>>
    /\ UNCHANGED <<throttleVars, tokenVars, cacheVars, accountVars>>

\* the GET of the public shares API answers: 200 with children, of which the
\* loop takes children[:max_files], or anything else (status, exception): on
\* to list_my_drive
OneDriveShareResponse ==
    /\ run.pc = "share"
    /\ \/ run' = OneDriveFallback(run)
       \/ \E children \in Listings([n \in 1..MaxItems |-> OneDriveChildren(n)]) :
             run' = OneDriveLoop([run EXCEPT !.items = Take(children, run.max_files),
                                             !.listed = TRUE])
    /\ UNCHANGED <<ext, ask, history>>
    /\ UNCHANGED <<throttleVars, tokenVars, cacheVars, accountVars>>

\* _http_get_bytes of the current share child returns bytes or b"" (it raises
\* nothing); "if data: preview = text_preview(name, data)", then docs.append
\* with ch["id"]
OneDriveItemResponse ==
    /\ run.pc = "get"
    /\ \E text \in PreviewTexts :
          LET ch == run.items[run.i] IN
          run' = IF ch.id = None
                   THEN OneDriveFallback(run)
                   ELSE OneDriveLoop(RunAppend(run,
                           [id |-> ch.id, title |-> ch.name,
                            content |-> OrPlaceholder(text, OneDriveFilePlaceholder)]))
    /\ UNCHANGED <<ext, ask, history>>
    /\ UNCHANGED <<throttleVars, tokenVars, cacheVars, accountVars>>

\* "docs = await self.list_my_drive(...)" raised: the except clause logs, docs
\* is not assigned, "return docs"
MyDriveRaised(r) ==
    RunReturn([r EXCEPT !.root = [called |-> TRUE, raised |-> TRUE, docs |-> <<>>]], r.docs)

\* "docs = await self.list_my_drive(...)" returned, "return docs"
MyDriveReturned(r, listing) ==
    RunReturn([r EXCEPT !.root = [called |-> TRUE, raised |-> FALSE, docs |-> listing]], listing)

\* list_my_drive ends: it raised (no token, a request failed, an entry without
\* id) and docs is what the share loop left, or it returned [] (status other
\* than 200, no entries) or the documents of items[:limit] of the root folder
OneDriveMyDriveResponse ==
    /\ run.pc = "mydrive"
    /\ \/ run' = MyDriveRaised(run)
       \/ \E items \in Listings([n \in 1..MaxItems |-> OneDriveRootEntries(n)]) :
             LET taken == Take(items, run.max_files) IN
             run' = IF \E i \in DOMAIN taken : taken[i].id = None
                      THEN MyDriveRaised(run)
                      ELSE MyDriveReturned(run, MyDriveDocs(taken, Len(taken)))
    /\ UNCHANGED <<ext, ask, history>>
    /\ UNCHANGED <<throttleVars, tokenVars, cacheVars, accountVars>>

\* the search POST of search_pages answers
NotionSearchResponse ==
    /\ run.pc = "search"
    /\ \/ run' = RunReturn(run, <<>>)
       \/ run' = RunRaise(run)
       \/ \E results \in Listings([n \in 1..MaxItems |-> NotionResults(n)]) :
             run' = RunReturn([run EXCEPT !.items = results, !.listed = TRUE],
                              NotionDocs(results, Len(results)))
    /\ UNCHANGED <<ext, ask, history>>
    /\ UNCHANGED <<throttleVars, tokenVars, cacheVars, accountVars>>

\* the caller has the result; the next call can start
ItemsReturn ==
    /\ run.pc = "done"
    /\ run' = IdleRun
    /\ UNCHANGED <<ext, ask, history>>
    /\ UNCHANGED <<throttleVars, tokenVars, cacheVars, accountVars>>

(***************************************************************************)
(* The content extractor: text_preview and its helpers.  Strings are       *)
(* sequences of characters; a byte sequence is given by its length and by  *)
(* what each reader makes of it (UTF-8 decoder, zipfile, the PDF backends) *)
(***************************************************************************)
MaxBytes == 3
MaxSlides == 3
MaxPdfPages == 4
MaxBudget == 3

\* max_pages=3 and max_chars=900 of the .pdf branch, the 4096 of data[:4096]
PDF_MAX_PAGES == 3
PDF_MAX_CHARS == 900
SAMPLE_BYTES == 4096

\* the characters \s matches
Whitespace == {" ", "\t"}
\* a byte that is not part of a valid UTF-8 sequence
InvalidByte == "x"
ByteValues == {"a", "[", InvalidByte} \cup Whitespace

\* the marker appended to a cut text
Ellipsis == <<" ", ".", ".", ".">>

\* s.lstrip(), s.rstrip(), s.strip()
RECURSIVE LStrip(_)
LStrip(s) == IF s # <<>> /\ Head(s) \in Whitespace THEN LStrip(Tail(s)) ELSE s
RECURSIVE RStrip(_)
RStrip(s) ==
    IF s # <<>> /\ s[Len(s)] \in Whitespace THEN RStrip(SubSeq(s, 1, Len(s) - 1)) ELSE s
Strip(s) == RStrip(LStrip(s))

\* re.sub(r"\s+", " ", s)
RECURSIVE Collapse(_)
Collapse(s) ==
    IF s = <<>> THEN <<>>
    ELSE IF Head(s) \in Whitespace THEN <<" ">> \o Collapse(LStrip(Tail(s)))
    ELSE <<Head(s)>> \o Collapse(Tail(s))

\* bytes.decode("utf-8", errors="ignore")
Decode(bytes) == SelectSeq(bytes, LAMBDA b : b # InvalidByte)

\* " ".join(texts)
RECURSIVE JoinSpace(_)
JoinSpace(texts) ==
    IF texts = <<>> THEN <<>>
    ELSE IF Len(texts) = 1 THEN texts[1]
    ELSE texts[1] \o <<" ">> \o JoinSpace(Tail(texts))

\* text[:max_chars] + (" ..." if len(text) > max_chars else "")
Truncate(text, max_chars) ==
    Take(text, max_chars) \o (IF Len(text) > max_chars THEN Ellipsis ELSE <<>>)

\* f"[binary {len(data)} bytes]"
BinaryPlaceholderNoLength(data) == <<"[", "b", "0">>
BinaryPlaceholder(data) == <<"[", "b", ToString(data.len)>>

\* what a preview function hands back: a string, or an exception
Returned(text, raw, failed) ==
    [raised |-> FALSE, text |-> text, raw |-> raw, failed |-> failed]
Raised == [raised |-> TRUE, text |-> <<>>, raw |-> <<>>, failed |-> TRUE]

\* "except Exception: pass" followed by the return of the placeholder
OnExtractErrorReraise(data) == Raised
OnExtractError(data) == Returned(BinaryPlaceholder(data), <<>>, TRUE)

\* _extract_xml_text(xml_bytes, tag): the texts of the tag's elements joined by
\* " ", whitespace collapsed, stripped
ExtractXmlText(part) == Strip(Collapse(JoinSpace(part.runs)))

\* the text accumulated over the slides: text += " " + _extract_xml_text(...)
RECURSIVE SlidesText(_)
SlidesText(slides) ==
    IF slides = <<>> THEN <<>>
    ELSE <<" ">> \o ExtractXmlText(Head(slides)) \o SlidesText(Tail(slides))

\* the XML parts of an archive by the texts of their run elements; a part
\* zf.read() fails on is Unreadable, a part not in namelist() is Absent
Unreadable == [there |-> TRUE, readable |-> FALSE, runs |-> <<>>]
Absent == [there |-> FALSE, readable |-> FALSE, runs |-> <<>>]
XmlParts ==
    {[there |-> TRUE, readable |-> TRUE, runs |-> r] :
        r \in {<<>>, <<<<"a">>>>, <<<<"a">>, <<"\t", "b">>>>, <<<<" ">>>>}}

\* file names are given by their ending; NoTitle is a title of None
NoTitle == "None"
CaseTable ==
    {<<".PDF", ".pdf">>, <<".Docx", ".docx">>, <<".PPTX", ".pptx">>,
     <<".XLSX", ".xlsx">>, <<".TXT", ".txt">>}
Titles ==
    {NoTitle, ""} \cup {pr[1] : pr \in CaseTable} \cup {pr[2] : pr \in CaseTable}

\* (title or "").lower()
Lower(title) ==
    IF title = NoTitle THEN ""
    ELSE IF \E pr \in CaseTable : pr[1] = title
           THEN (CHOOSE pr \in CaseTable : pr[1] = title)[2]
           ELSE title

\* name.endswith(ext)
EndsWith(name, suffix) == name = suffix

\* _OFFICE_EXTS and _is_office_zip
OFFICE_EXTS == {".docx", ".pptx", ".xlsx"}
IsOfficeZip(name) == \E e \in OFFICE_EXTS : EndsWith(Lower(name), e)

\* the byte sequences: text bytes, archives (corrupt for the other readers),
\* PDF documents
NotZip == [family |-> "corrupt", body |-> Absent, slides |-> <<>>]
NotPdf == [fitz |-> "raises", pages |-> <<>>, miner |-> "raises", minerText |-> <<>>]
TextData ==
    {[len |-> Len(b), bytes |-> b, zip |-> NotZip, pdf |-> NotPdf] :
        b \in UNION {[1..n -> ByteValues] : n \in 0..MaxBytes}}
ZipData ==
    {[len |-> 9, bytes |-> <<"a">>, zip |-> z, pdf |-> NotPdf] :
        z \in [family : {"word", "xl"}, body : XmlParts \cup {Unreadable, Absent},
               slides : {<<>>}]
          \cup [family : {"ppt"}, body : {Absent},
                slides : UNION {[1..n -> XmlParts \cup {Unreadable}] : n \in 0..MaxSlides}]}
PageTexts == {<<>>, <<"a">>, <<"\t", "a">>}
PdfData ==
    {[len |-> 8, bytes |-> <<"a">>, zip |-> NotZip, pdf |-> d] :
        d \in [fitz : {"raises"}, pages : {<<>>}, miner : {"raises"}, minerText : {<<>>}]
          \cup [fitz : {"raises"}, pages : {<<>>}, miner : {"ok"},
                minerText : {<<>>, <<"\t">>, <<"a", " ", " ", "b">>}]
          \cup [fitz : {"ok"}, pages : UNION {[1..n -> PageTexts] : n \in 0..MaxPdfPages},
                miner : {"raises"}, minerText : {<<>>}]
          \cup [fitz : {"ok"}, pages : {<<>>, <<<<>>, <<>>>>}, miner : {"ok"},
                minerText : {<<>>, <<"a", " ", " ", "b">>}]}
ByteSequences == TextData \cup ZipData \cup PdfData
Budgets == 0..MaxBudget

\* _preview_office_zip(filename, data, max_chars)
PreviewOfficeZip(filename, data, max_chars) ==
    LET z == data.zip
        name_lower == Lower(filename)
        failing ==
            \/ z.family = "corrupt"
            \/ EndsWith(name_lower, ".docx") /\ z.family = "word" /\ z.body = Unreadable
            \/ EndsWith(name_lower, ".xlsx") /\ z.family = "xl" /\ z.body = Unreadable
            \/ EndsWith(name_lower, ".pptx") /\ z.family = "ppt"
                  /\ \E i \in DOMAIN z.slides : z.slides[i] = Unreadable
        raw == CASE EndsWith(name_lower, ".docx") /\ z.family = "word" /\ z.body # Absent ->
                        <<" ">> \o ExtractXmlText(z.body)
                 [] EndsWith(name_lower, ".pptx") /\ z.family = "ppt" -> SlidesText(z.slides)
                 [] EndsWith(name_lower, ".xlsx") /\ z.family = "xl" /\ z.body # Absent ->
                        ExtractXmlText(z.body)
                 [] OTHER -> <<>>
        text == Strip(raw)
    IN  IF failing THEN OnExtractError(data)
        ELSE IF text # <<>> THEN Returned(Truncate(text, max_chars), raw, FALSE)
        ELSE Returned(BinaryPlaceholder(data), raw, TRUE)

\* _preview_pdf_bytes(data, max_pages, max_chars): PyMuPDF, then pdfminer
PreviewPdfBytes(data, max_pages, max_chars) ==
    LET d == data.pdf
        texts == Take(d.pages, max_pages)
        rawFitz == JoinSpace(texts)
        txtFitz == Collapse(Strip(rawFitz))
        rawMiner == d.minerText
        txtMiner == Strip(Collapse(rawMiner))
    IN  IF d.fitz = "ok" /\ txtFitz # <<>>
          THEN Returned(Truncate(txtFitz, max_chars), rawFitz, FALSE)
        ELSE IF d.miner = "ok" /\ txtMiner # <<>>
          THEN Returned(Truncate(txtMiner, max_chars), rawMiner, FALSE)
        ELSE Returned(BinaryPlaceholder(data), <<>>, TRUE)

\* text_preview(title, data, max_chars)
TextPreview(title, data, max_chars) ==
    LET name == Lower(title)
        sample == Take(data.bytes, SAMPLE_BYTES)
        raw == Decode(sample)
        text == Strip(Collapse(raw))
    IN  IF EndsWith(name, ".pdf") THEN PreviewPdfBytes(data, PDF_MAX_PAGES, PDF_MAX_CHARS)
        ELSE IF IsOfficeZip(name) THEN PreviewOfficeZip(title, data, max_chars)
        ELSE Returned(Truncate(text, max_chars), raw, FALSE)

IdleExt ==
    [pc |-> "idle", fn |-> "text_preview", title |-> NoTitle,
     data |-> [len |-> 0, bytes |-> <<>>, zip |-> NotZip, pdf |-> NotPdf],
     max_chars |-> 0, budget |-> 0, out |-> Returned(<<>>, <<>>, FALSE)]

\* a caller evaluates text_preview(title, data, max_chars)
CallTextPreview ==
    /\ ext.pc = "call" /\ ext.fn = "text_preview"
    /\ ext' = [ext EXCEPT !.pc = "done",
                          !.budget = IF EndsWith(Lower(ext.title), ".pdf") THEN PDF_MAX_CHARS
                                                                ELSE ext.max_chars,
                          !.out = TextPreview(ext.title, ext.data, ext.max_chars)]
    /\ UNCHANGED <<run, ask, history>>
    /\ UNCHANGED <<throttleVars, tokenVars, cacheVars, accountVars>>

\* _preview_pdf_bytes evaluated with a budget of its own
CallPreviewPdfBytes ==
    /\ ext.pc = "call" /\ ext.fn = "_preview_pdf_bytes"
    /\ ext' = [ext EXCEPT !.pc = "done", !.budget = ext.max_chars,
                          !.out = PreviewPdfBytes(ext.data, PDF_MAX_PAGES, ext.max_chars)]
    /\ UNCHANGED <<run, ask, history>>
    /\ UNCHANGED <<throttleVars, tokenVars, cacheVars, accountVars>>

(***************************************************************************)
(* The orchestrator: chat_ask and chat_summarize of chat_router.py.  The   *)
(* adapter behind get_documents_from_provider is taken by its outcome: the *)
(* list it returns, or the exception it lets through                       *)
(***************************************************************************)
MaxDocs == 2

\* the keys of REGISTRY, and the loop order of the automatic mode
REGISTRY == Providers
AutoOrder == <<"google", "onedrive", "notion">>

\* AskRequest.provider: absent or empty (""), "auto", or a name
AskProviders == {"", "auto", "google", "Google", "onedrive", "notion", "dropbox"}

\* req.provider.lower()
ProviderLower(provider) == IF provider = "Google" THEN "google" ELSE provider

\* the content of the documents an adapter returns: "" (OneDrive folder
\* entry), a placeholder, recovered text
AskTexts == {<<>>, <<"[", "b">>, <<"a">>}
AdapterDocs == [id : {1}, title : {1}, content : AskTexts]
AdapterResults == UNION {[1..n -> AdapterDocs] : n \in 0..MaxDocs}

\* the adapters an exception can leave: OneDriveProvider.enumerate_from_link
\* catches everything it calls
RaisingAdapters == {"google", "notion"}

\* "if content and not content.startswith('[')"
IsContentNonEmpty(content) == content # <<>>
IsContent(content) == content # <<>> /\ Head(content) # "["

\* chunks of chat_ask: (title, content) of the documents that pass the test
AskChunks(docs) ==
    LET kept == SelectSeq(docs, LAMBDA d : IsContent(d.content))
    IN  [i \in 1..Len(kept) |-> [title |-> kept[i].title, content |-> kept[i].content]]

\* valid_docs of chat_summarize
ValidDocs(docs) == SelectSeq(docs, LAMBDA d : IsContent(d.content))

\* doc["provider"] = provider
Tagged(docs, p) ==
    [i \in 1..Len(docs) |-> [id |-> docs[i].id, title |-> docs[i].title,
                             content |-> docs[i].content, provider |-> p]]

\* providers_to_check of chat_ask: the named provider in lower case, or in
\* automatic mode the providers get_connection_row finds a row for
ResolveProvidersAll(provider, rows) ==
    IF provider \notin {"", "auto"} THEN <<ProviderLower(provider)>> ELSE AutoOrder
ResolveProviders(provider, rows) ==
    IF provider \notin {"", "auto"}
      THEN <<ProviderLower(provider)>>
      ELSE SelectSeq(AutoOrder, LAMBDA p : rows[p].exists)

IdleAsk ==
    [pc |-> "idle", endpoint |-> "ask", provider |-> "", providers_to_check |-> <<>>,
     idx |-> 1, all_docs |-> <<>>, docs |-> <<>>, response |-> "none",
     answerArgs |-> <<>>, invoked |-> <<>>, connectedAtStart |-> {},
     returned |-> [p \in Providers |-> <<>>],
     outcome |-> [p \in Providers |-> "none"]]

\* the end of the collection loop of chat_ask: "if not all_docs", the chunks,
\* "if not chunks", else answer_with_gemini(question, chunks) is awaited
AskCollected(a) ==
    LET chunks == AskChunks(a.all_docs) IN
    CASE a.all_docs = <<>> -> [a EXCEPT !.pc = "done", !.response = "no_docs"]
      [] a.all_docs # <<>> /\ chunks = <<>> ->
             [a EXCEPT !.pc = "done", !.response = "unreadable"]
      [] OTHER -> [a EXCEPT !.pc = "answer", !.answerArgs = Append(@, chunks)]

\* refresh_token() of provider p raises RuntimeError("... not configured"): the
\* stored token needs a refresh, a refresh token is stored, and the client id
\* or the client secret is missing in the environment
RefreshRaisesNotConfigured(p) ==
    /\ p \in Refreshable
    /\ conn[p].exists
    /\ NeedsRefresh(ExtractTokens(conn[p]).expires_at, now)
    /\ ExtractTokens(conn[p]).refresh_token # None
    /\ ~configured[p]

\* the loop "for provider in providers_to_check" from entry i up to the await
\* of an adapter; get_documents_from_provider returns [] at once for a name
\* that is not in REGISTRY.  GoogleProvider.enumerate_from_link starts with
\* _get_valid_token: when its refresh raises for missing credentials, it does
\* so before any await, and the except clause of the loop takes it
RECURSIVE AskLoop(_, _)
RECURSIVE ProviderFailed(_)
AskLoop(a, i) ==
    LET p == a.providers_to_check[i] IN
    IF i > Len(a.providers_to_check)
      THEN AskCollected(a)
      ELSE IF p \in REGISTRY
             THEN IF p = "google" /\ RefreshRaisesNotConfigured(p)
                    THEN ProviderFailed([a EXCEPT !.idx = i, !.invoked = Append(@, p),
                                                  !.outcome = [@ EXCEPT ![p] = "config"]])
                    ELSE [a EXCEPT !.pc = "enumerate", !.idx = i,
                                   !.invoked = Append(@, p)]
             ELSE AskLoop(a, i + 1)

\* "except Exception as e: LOG.warning(...)" of the collection loop: on to the
\* next provider
ProviderFailedAbort(a) == [a EXCEPT !.pc = "done", !.response = "raised"]
ProviderFailed(a) == AskLoop(a, a.idx + 1)

\* chat_ask up to its first await: the 400 check, the provider set, the loop
\* up to the first adapter
AskStarted(valid, provider) ==
    LET a == [IdleAsk EXCEPT !.endpoint = "ask", !.provider = provider,
                 !.providers_to_check = ResolveProviders(provider, conn),
                 !.connectedAtStart = {p \in Providers : conn[p].exists}]
    IN  CASE ~valid -> [IdleAsk EXCEPT !.pc = "done", !.response = "400"]
          [] valid /\ a.providers_to_check = <<>> ->
                 [a EXCEPT !.pc = "done", !.response = "no_connection"]
          [] OTHER -> AskLoop(a, 1)

\* POST /chat/ask up to its first await
ChatAskStart ==
    /\ ask.pc = "idle"
    /\ \E valid \in BOOLEAN, provider \in AskProviders :
          ask' = AskStarted(valid, provider)
    /\ UNCHANGED <<run, ext, history>>
    /\ UNCHANGED <<throttleVars, tokenVars, cacheVars, accountVars>>

\* the adapter returns docs: every document gets its provider, is appended to
\* all_docs and is written to the cache; cache_document raising at document k
\* (k = 0: no failure) ends the provider's turn in the except clause.
\* OneDriveProvider.enumerate_from_link returns the documents of the share, or
\* what list_my_drive returns; a RuntimeError of refresh_token() in there is
\* caught and the list is empty
AskEnumerateReturned(ak, docs, k) ==
    LET p == ak.providers_to_check[ak.idx]
        added == IF k = 0 THEN docs ELSE Take(docs, k)
        a == [ak EXCEPT !.all_docs = @ \o Tagged(added, p),
                        !.returned = [@ EXCEPT ![p] = docs],
                        !.outcome = [@ EXCEPT ![p] =
                            CASE k # 0 -> "cachefail"
                              [] k = 0 /\ docs = <<>> /\ RefreshRaisesNotConfigured(p) ->
                                     "config"
                              [] OTHER -> "ok"]]
    IN  IF k = 0 THEN AskLoop(a, a.idx + 1) ELSE ProviderFailed(a)

\* the adapter chat_ask awaits returns docs
ChatAskEnumerateReturn ==
    /\ ask.pc = "enumerate" /\ ask.endpoint = "ask"
    /\ \E docs \in AdapterResults :
       \E k \in 0..Len(docs) :
          ask' = AskEnumerateReturned(ask, docs, k)
    /\ UNCHANGED <<run, ext, history>>
    /\ UNCHANGED <<throttleVars, tokenVars, cacheVars, accountVars>>

\* the adapter raises: the except clause logs it
AskEnumerateRaised(ak) ==
    ProviderFailed([ak EXCEPT
        !.outcome = [@ EXCEPT ![ak.providers_to_check[ak.idx]] = "raised"]])

\* the adapter chat_ask awaits raises
ChatAskEnumerateRaise ==
    /\ ask.pc = "enumerate" /\ ask.endpoint = "ask"
    /\ ask.providers_to_check[ask.idx] \in RaisingAdapters
    /\ ask' = AskEnumerateRaised(ask)
    /\ UNCHANGED <<run, ext, history>>
    /\ UNCHANGED <<throttleVars, tokenVars, cacheVars, accountVars>>

\* a chat_ask that stores the answer before the question
ChatAskAnsweredAnswerFirst ==
    /\ ask.pc = "answer" /\ ask.endpoint = "ask"
    /\ ask' = [ask EXCEPT !.pc = "done", !.response = "answered"]
    /\ history' = history \o <<[role |-> "assistant", provider |-> ask.provider],
                               [role |-> "user", provider |-> ask.provider]>>
    /\ UNCHANGED <<run, ext>>
    /\ UNCHANGED <<throttleVars, tokenVars, cacheVars, accountVars>>

\* answer_with_gemini returns, or raises and the error text is the answer; the
\* question and the answer are added to chat_history
ChatAskAnswered ==
    /\ ask.pc = "answer" /\ ask.endpoint = "ask"
    /\ ask' = [ask EXCEPT !.pc = "done", !.response = "answered"]
    /\ history' = history \o <<[role |-> "user", provider |-> ask.provider],
                               [role |-> "assistant", provider |-> ask.provider]>>
    /\ UNCHANGED <<run, ext>>
    /\ UNCHANGED <<throttleVars, tokenVars, cacheVars, accountVars>>

\* POST /chat/summarize up to its first await: 400 for a provider that is not
\* in REGISTRY, the connection check, then the adapter (whose exception,
\* raised before its first await or later, becomes the error response)
ChatSummarizeStart ==
    /\ ask.pc = "idle"
    /\ \E provider \in AskProviders \ {"", "auto"} :
          LET name == ProviderLower(provider)
              a == [IdleAsk EXCEPT !.endpoint = "summarize", !.provider = provider,
                       !.providers_to_check = <<name>>,
                       !.connectedAtStart = {p \in Providers : conn[p].exists}]
          IN  ask' = CASE name \notin REGISTRY ->
                              [a EXCEPT !.pc = "done", !.response = "400"]
                       [] name \in REGISTRY /\ ~conn[name].exists ->
                              [a EXCEPT !.pc = "done", !.response = "no_connection"]
                       [] name = "google" /\ RefreshRaisesNotConfigured(name) ->
                              [a EXCEPT !.pc = "done", !.response = "error",
                                        !.invoked = <<name>>,
                                        !.outcome = [@ EXCEPT ![name] = "config"]]
                       [] OTHER -> [a EXCEPT !.pc = "enumerate", !.idx = 1,
                                             !.invoked = <<name>>]
    /\ UNCHANGED <<run, ext, history>>
    /\ UNCHANGED <<throttleVars, tokenVars, cacheVars, accountVars>>

\* the adapter of chat_summarize returns or raises ("except Exception": the
\* error response); "if not docs", valid_docs, "if not valid_docs", else
\* summarize_documents(valid_docs) is awaited
ChatSummarizeEnumerated ==
    /\ ask.pc = "enumerate" /\ ask.endpoint = "summarize"
    /\ LET p == ask.providers_to_check[ask.idx] IN
       \/ /\ p \in RaisingAdapters
          /\ ask' = [ask EXCEPT !.pc = "done", !.response = "error",
                                !.outcome = [@ EXCEPT ![p] = "raised"]]
       \/ \E docs \in AdapterResults :
             LET a == [ask EXCEPT !.docs = docs,
                                  !.returned = [@ EXCEPT ![p] = docs],
                                  !.outcome = [@ EXCEPT ![p] = "ok"]]
             IN  ask' = CASE docs = <<>> -> [a EXCEPT !.pc = "done", !.response = "no_docs"]
                          [] docs # <<>> /\ ValidDocs(docs) = <<>> ->
                                 [a EXCEPT !.pc = "done", !.response = "unreadable"]
                          [] OTHER -> [a EXCEPT !.pc = "answer",
                                                !.answerArgs = Append(@, ValidDocs(docs))]
    /\ UNCHANGED <<run, ext, history>>
    /\ UNCHANGED <<throttleVars, tokenVars, cacheVars, accountVars>>

\* summarize_documents returns or raises; the summary is the response
ChatSummarizeAnswered ==
    /\ ask.pc = "answer" /\ ask.endpoint = "summarize"
    /\ ask' = [ask EXCEPT !.pc = "done", !.response = "answered"]
    /\ UNCHANGED <<run, ext, history>>
    /\ UNCHANGED <<throttleVars, tokenVars, cacheVars, accountVars>>

\* DELETE /connections/{provider} of another request while chat_ask or
\* chat_summarize awaits an adapter (one such request per chat request)
AskDisconnect(p) ==
    /\ ask.pc = "enumerate"
    /\ {q \in Providers : conn[q].exists} = ask.connectedAtStart
    /\ DeleteConnection(p)

(***************************************************************************)
(* chat_ask and the table document_cache: two calls with the same request, *)
(* the same adapter results and the same token store, each over its own    *)
(* copy of the table                                                       *)
(***************************************************************************)
Runs == 1..2

\* "content_preview=doc.get('content', '')[:500]"
CACHE_PREVIEW_CHARS == 500

\* "sources": sources_used[:10]
SOURCES_MAX == 10

\* a row of document_cache for the key (user, provider, doc id); the adapters
\* of the model give every document the id 1, so there is one key per provider
NoEntry == [there |-> FALSE, doc_title |-> None, content_preview |-> <<>>, summary |-> None]
\* a row left by an earlier request: another title, an older preview, a summary
StaleEntry == [there |-> TRUE, doc_title |-> 2, content_preview |-> <<"o">>, summary |-> 1]
\* the tables a run starts with: a stale row or none for each drive provider
CacheTables == {t \in [Providers -> {NoEntry, StaleEntry}] : t["notion"] = NoEntry}

\* cache_document(user, provider, doc_id, doc_title=..., content_preview=...):
\* INSERT ... ON CONFLICT(user_name, provider, doc_id) DO UPDATE SET
\* doc_title = COALESCE(excluded.doc_title, document_cache.doc_title), the same
\* for content_preview and summary (summary is not passed: NULL)
CacheDocument(table, p, doc) ==
    [table EXCEPT ![p] =
        [there |-> TRUE,
         doc_title |-> Coalesce(doc.title, @.doc_title),
         content_preview |-> Take(doc.content, CACHE_PREVIEW_CHARS),
         summary |-> Coalesce(None, @.summary)]]

\* the calls of cache_document for the first n documents of an adapter's result
RECURSIVE CacheWrites(_, _, _, _)
CacheWrites(table, p, docs, n) ==
    IF n = 0 THEN table
    ELSE CacheDocument(CacheWrites(table, p, docs, n - 1), p, docs[n])

\* get_cached_documents(user): the rows of the user
CachedDocuments(table) ==
    {[provider |-> p, doc_title |-> table[p].doc_title,
      content_preview |-> table[p].content_preview, summary |-> table[p].summary] :
        p \in {q \in Providers : table[q].there}}

NotAsked == [asked |-> FALSE, documents |-> {}]

IdleTwinRun == [ask |-> IdleAsk, cache |-> [p \in Providers |-> NoEntry],
                cached |-> NotAsked, history |-> <<>>]

\* a chat_ask that takes the cached preview of a document where there is one
AskProviderTurnCacheFirst(r, docs, k) ==
    LET p == r.ask.providers_to_check[r.ask.idx]
        seen == [i \in 1..Len(docs) |->
                    IF r.cache[p].there
                      THEN [docs[i] EXCEPT !.content = r.cache[p].content_preview]
                      ELSE docs[i]]
    IN  [r EXCEPT !.ask = AskEnumerateReturned(@, seen, k),
                  !.cache = CacheWrites(@, p, docs, IF k = 0 THEN Len(docs) ELSE k - 1)]

\* one turn of the loop "for provider in providers_to_check" after the adapter
\* returned docs: each document is appended to all_docs and sources_used and
\* then written to the cache; cache_document raising at document k (k = 0: no
\* failure) leaves the documents before k in the table
AskProviderTurn(r, docs, k) ==
    [r EXCEPT !.ask = AskEnumerateReturned(@, docs, k),
              !.cache = CacheWrites(@, r.ask.providers_to_check[r.ask.idx], docs,
                                    IF k = 0 THEN Len(docs) ELSE k - 1)]

\* sources_used of chat_ask, and the "sources" of its response
SourcesUsed(docs) ==
    [i \in 1..Len(docs) |-> [provider |-> docs[i].provider, title |-> docs[i].title,
                             id |-> docs[i].id]]
AskSources(a) ==
    IF a.response \in {"unreadable", "answered"}
      THEN Take(SourcesUsed(a.all_docs), SOURCES_MAX)
      ELSE <<>>

\* the same POST /chat/ask arrives in both runs
TwinChatAskStart ==
    /\ \A i \in Runs : twin[i].ask.pc = "idle"
    /\ \E valid \in BOOLEAN, provider \in AskProviders :
          twin' = [i \in Runs |-> [twin[i] EXCEPT !.ask = AskStarted(valid, provider)]]
    /\ UNCHANGED <<throttleVars, tokenVars, ingestVars, accountVars>>

\* the adapter returns the same docs in both runs, and the database fails at
\* the same call of cache_document, if it does
TwinChatAskEnumerateReturn ==
    /\ \E i \in Runs : twin[i].ask.pc = "enumerate"
    /\ \E docs \in AdapterResults :
       \E k \in 0..Len(docs) :
          twin' = [i \in Runs |->
                     IF twin[i].ask.pc = "enumerate"
                       THEN AskProviderTurn(twin[i], docs, k)
                       ELSE twin[i]]
    /\ UNCHANGED <<throttleVars, tokenVars, ingestVars, accountVars>>

\* the adapter raises in both runs
TwinChatAskEnumerateRaise ==
    /\ \E i \in Runs : twin[i].ask.pc = "enumerate"
    /\ \A i \in Runs :
          twin[i].ask.pc = "enumerate" =>
             twin[i].ask.providers_to_check[twin[i].ask.idx] \in RaisingAdapters
    /\ twin' = [i \in Runs |->
                  IF twin[i].ask.pc = "enumerate"
                    THEN [twin[i] EXCEPT !.ask = AskEnumerateRaised(@)]
                    ELSE twin[i]]
    /\ UNCHANGED <<throttleVars, tokenVars, ingestVars, accountVars>>

\* answer_with_gemini returns; the question and the answer are added to
\* chat_history
TwinChatAskAnswered ==
    /\ \E i \in Runs : twin[i].ask.pc = "answer"
    /\ twin' = [i \in Runs |->
                  IF twin[i].ask.pc = "answer"
                    THEN [twin[i] EXCEPT
                            !.ask = [@ EXCEPT !.pc = "done", !.response = "answered"],
                            !.history = @ \o <<[role |-> "user", provider |-> twin[i].ask.provider],
                                               [role |-> "assistant", provider |-> twin[i].ask.provider]>>]
                    ELSE twin[i]]
    /\ UNCHANGED <<throttleVars, tokenVars, ingestVars, accountVars>>

\* GET /chat/cached-docs after the request (once per run)
TwinGetCachedDocs ==
    /\ \A i \in Runs : twin[i].ask.pc = "done" /\ ~twin[i].cached.asked
    /\ twin' = [i \in Runs |->
                  [twin[i] EXCEPT !.cached = [asked |-> TRUE,
                                              documents |-> CachedDocuments(twin[i].cache)]]]
    /\ UNCHANGED <<throttleVars, tokenVars, ingestVars, accountVars>>

(***************************************************************************)
(* Accounts and the browser session (app.py, auth/signup.py, storage.py)   *)
(***************************************************************************)
\* request.session without the key "user"
NoSession == [has |-> FALSE, user |-> <<>>]

\* n alternates with every response, so that two equal responses in a row are
\* two responses
NoResponse == [op |-> "none", status |-> 0, n |-> 0]
Respond(op, status) == [op |-> op, status |-> status, n |-> 1 - http.n]

\* no chat_ask pair, no user, nobody logged in, no request answered
WebIdle ==
    /\ twin = [i \in Runs |-> IdleTwinRun]
    /\ users = {}
    /\ session = NoSession
    /\ http = NoResponse

\* a character of a user name: its letter, whether it is the capital, and
\* whether it is an ASCII character
Ch(letter, upper, ascii) == [letter |-> letter, upper |-> upper, ascii |-> ascii]

\* the user names of the requests: "abcd", "Abcd", "ébcd", "Ébcd" and
\* the short name "bc"
NameTail == <<Ch("b", FALSE, TRUE), Ch("c", FALSE, TRUE), Ch("d", FALSE, TRUE)>>
FirstChars == {Ch("a", FALSE, TRUE), Ch("a", TRUE, TRUE),
               Ch("e-acute", FALSE, FALSE), Ch("e-acute", TRUE, FALSE)}
ShortName == <<Ch("b", FALSE, TRUE), Ch("c", FALSE, TRUE)>>
UserNameInputs == {<<c>> \o NameTail : c \in FirstChars} \cup {ShortName}

\* passwords "ppppp", "pppppp", "qqqqqq"; e-mail and display name given or not
PasswordInputs == {<<"p", "p", "p", "p", "p">>, <<"p", "p", "p", "p", "p", "p">>,
                   <<"q", "q", "q", "q", "q", "q">>}
EmailInputs == {<<>>, <<"e">>}
DisplayNameInputs == {<<>>, <<"n">>}

\* "if len(user_name) < 4", "if len(password) < 6"
USER_NAME_MIN == 4
PASSWORD_MIN == 6

\* lower() of the database.  The default backend is SQLite (USE_POSTGRES is
\* false without DATABASE_URL), whose built-in lower() converts the 26 ASCII
\* capitals and leaves every other character as it is
SqlLower(name) ==
    [i \in 1..Len(name) |-> IF name[i].ascii THEN [name[i] EXCEPT !.upper = FALSE]
                                             ELSE name[i]]

\* is_unique_user_name: SELECT 1 FROM "user" WHERE lower(user_name) = lower(?)
IsUniqueUserName(name) ==
    ~ \E r \in users : SqlLower(r.user_name) = SqlLower(name)

\* is_unique_email: ... WHERE email IS NOT NULL AND lower(email) = lower(?)
IsUniqueEmail(email) ==
    ~ \E r \in users : r.email # <<>> /\ r.email = email

\* the row create_user inserts and update_user_profile completes (NULL is <<>>)
UserRow(name, password, display_name, email) ==
    [user_name |-> name, password |-> password, display_name |-> display_name,
     email |-> email]

\* POST /auth/signup.  The body of the handler has no await: the checks,
\* create_user and update_user_profile run in one step of the event loop.
\* create_user raises ValueError("USERNAME_TAKEN") on the UNIQUE(user_name)
\* constraint, which compares the names as they are written
Signup ==
    /\ \E name \in UserNameInputs, password \in PasswordInputs,
          confirm_password \in PasswordInputs,
          display_name \in DisplayNameInputs, email \in EmailInputs :
          IF \/ Len(name) < USER_NAME_MIN
             \/ Len(password) < PASSWORD_MIN
             \/ password # confirm_password
             \/ ~IsUniqueUserName(name)
             \/ (email # <<>> /\ ~IsUniqueEmail(email))
             \/ \E r \in users : r.user_name = name
            THEN /\ users' = users
                 /\ http' = Respond("signup", 400)
            ELSE /\ users' = users \cup {UserRow(name, password, display_name, email)}
                 /\ http' = Respond("signup", 303)
    /\ UNCHANGED session
    /\ UNCHANGED <<throttleVars, tokenVars, ingestVars, cacheVars>>

\* the user whose rows of user_connections are in conn, and the password
\* stored for that user
OwnerName == <<Ch("a", FALSE, TRUE)>> \o NameTail
OwnerPassword == <<"p", "p", "p", "p", "p", "p">>

\* get_connection_row(user, provider)
RowOf(user, p) == IF user = OwnerName THEN conn[p] ELSE NoRow

\* user = request.session.get("user"); "if not user"
SessionUser(sess) == IF sess.has THEN sess.user ELSE <<>>
NotLoggedInNever(sess) == FALSE
NotLoggedIn(sess) == SessionUser(sess) = <<>>

\* verify_login: SELECT password FROM "user" WHERE user_name = ?; compared
\* with the password of the form
VerifyLogin(name, password) ==
    \E r \in users : r.user_name = name /\ r.password = password

\* POST /auth/login
AuthLogin ==
    /\ \E name \in UserNameInputs, password \in PasswordInputs :
          IF VerifyLogin(name, password)
            THEN /\ session' = [has |-> TRUE, user |-> name]
                 /\ http' = Respond("login", 303)
            ELSE /\ session' = session
                 /\ http' = Respond("login", 400)
    /\ UNCHANGED users
    /\ UNCHANGED <<throttleVars, tokenVars, ingestVars, cacheVars>>

\* POST /auth/logout: request.session.clear()
AuthLogout ==
    /\ session' = NoSession
    /\ http' = Respond("logout", 200)
    /\ UNCHANGED users
    /\ UNCHANGED <<throttleVars, tokenVars, ingestVars, cacheVars>>

\* GET /logout: request.session.clear(), redirect to the login page
LogoutGet ==
    /\ session' = NoSession
    /\ http' = Respond("logout_get", 302)
    /\ UNCHANGED users
    /\ UNCHANGED <<throttleVars, tokenVars, ingestVars, cacheVars>>

\* GET /me
Me ==
    /\ http' = Respond("me", IF NotLoggedIn(session) THEN 401 ELSE 200)
    /\ UNCHANGED <<users, session>>
    /\ UNCHANGED <<throttleVars, tokenVars, ingestVars, cacheVars>>

\* GET /connections
GetConnections ==
    /\ http' = Respond("connections", IF NotLoggedIn(session) THEN 401 ELSE 200)
    /\ UNCHANGED <<users, session>>
    /\ UNCHANGED <<throttleVars, tokenVars, ingestVars, cacheVars>>

\* DELETE /connections/{provider}: delete_connection(user, provider), which
\* deletes the row of that user if there is one
DisconnectProvider(p) ==
    /\ IF NotLoggedIn(session)
         THEN /\ http' = Respond("disconnect", 401)
              /\ UNCHANGED <<conn, lastWrite>>
         ELSE /\ http' = Respond("disconnect", 200)
              /\ conn' = IF SessionUser(session) = OwnerName
                           THEN [conn EXCEPT ![p] = NoRow] ELSE conn
              /\ lastWrite' = IF SessionUser(session) = OwnerName
                                THEN [lastWrite EXCEPT ![p] = NoWrite] ELSE lastWrite
    /\ UNCHANGED <<users, session>>
    /\ UNCHANGED <<now, ticks, issued, configured, reqProvider, tasks>>
    /\ UNCHANGED <<throttleVars, ingestVars, cacheVars>>

\* GET /connections/quick-link?provider=p: 404 without a row, else the url
GetQuickLink(p) ==
    /\ http' = Respond("get_quick_link",
                  CASE NotLoggedIn(session) -> 401
                    [] ~NotLoggedIn(session) /\ ~RowOf(SessionUser(session), p).exists -> 404
                    [] OTHER -> 200)
    /\ UNCHANGED <<users, session>>
    /\ UNCHANGED <<throttleVars, tokenVars, ingestVars, cacheVars>>

\* POST /connections/quick-link: 404 without a row, else update_connection_meta
PostQuickLink(p) ==
    /\ \E url \in Urls :
          CASE NotLoggedIn(session) ->
                  /\ http' = Respond("set_quick_link", 401)
                  /\ UNCHANGED conn
            [] ~NotLoggedIn(session) /\ ~RowOf(SessionUser(session), p).exists ->
                  /\ http' = Respond("set_quick_link", 404)
                  /\ UNCHANGED conn
            [] OTHER ->
                  /\ http' = Respond("set_quick_link", 200)
                  /\ conn' = [conn EXCEPT ![p] = UpdateConnectionMeta(@, url)]
    /\ UNCHANGED <<users, session>>
    /\ UNCHANGED <<now, ticks, issued, configured, reqProvider, lastWrite, tasks>>
    /\ UNCHANGED <<throttleVars, ingestVars, cacheVars>>

TokenInit ==
    /\ now = Epoch0
    /\ ticks = 0
    /\ issued = 0
    /\ reqProvider \in Providers
    /\ configured \in [Providers -> BOOLEAN]
    /\ \A p \in Providers \ {reqProvider} : configured[p]
    /\ \E row \in {NoRow} \cup CallbackRows(reqProvider, StoredToken, Epoch0) :
          /\ conn = [p \in Providers |-> IF p = reqProvider THEN row ELSE NoRow]
          /\ lastWrite = [p \in Providers |->
                 IF p = reqProvider /\ row.exists
                   THEN [kind |-> "callback", at |-> Epoch0,
                         expires_in |-> IF p = "notion" THEN None
                                        ELSE row.expires_at - Epoch0 + 60]
                   ELSE NoWrite]
    /\ tasks = [t \in Tasks |-> IdleTask]

ThrottleInit ==
    /\ permits = DL_PERMITS
    /\ dl = [d \in Downloads |-> IdleDl]

\* no enumerate call, no text_preview call, no chat request; chat_history empty
IngestInit ==
    /\ run = IdleRun
    /\ ext = IdleExt
    /\ ask = IdleAsk
    /\ history = <<>>

\* a token store with no request in progress
TokenIdle ==
    /\ now = Epoch0
    /\ ticks = 0
    /\ issued = 0
    /\ configured = [p \in Providers |-> TRUE]
    /\ reqProvider = "google"
    /\ conn = [p \in Providers |-> NoRow]
    /\ lastWrite = [p \in Providers |-> NoWrite]
    /\ tasks = [t \in Tasks |-> IdleTask]

(***************************************************************************)
(* Specification of the download throttle                                  *)
(***************************************************************************)
ThrottleStart ==
    /\ WebIdle
    /\ ThrottleInit
    /\ IngestInit
    /\ now = Epoch0
    /\ ticks = 0
    /\ issued = 0
    /\ configured = [p \in Providers |-> TRUE]
    /\ reqProvider = "google"
    /\ conn = [p \in Providers |-> NoRow]
    /\ lastWrite = [p \in Providers |-> NoWrite]
    /\ tasks = [t \in Tasks |-> IdleTask]

ThrottleNext ==
    \E d \in Downloads :
        \/ HttpGetBytesEnter(d)
        \/ HttpGetBytesAcquire(d)
        \/ HttpGetBytesOk(d)
        \/ HttpGetBytesNon200(d)
        \/ HttpGetBytesRaise(d)
        \/ GoogleDownloadFile(d)
        \/ GoogleExportNativeFile(d)
        \/ GoogleDownloadEnd(d)
        \/ DownloadReturn(d)

SpecThrottle == ThrottleStart /\ [][ThrottleNext]_vars

\* the GET of a call of _http_get_bytes ends: httpx answers, or raises at the
\* latest when the timeout of the client expires
HttpGetBytesEnds(d) ==
    HttpGetBytesOk(d) \/ HttpGetBytesNon200(d) \/ HttpGetBytesRaise(d)

\* The throttle under the scheduling of the event loop: every GET in flight
\* ends, and a call blocked in acquire() is resumed at a release (release()
\* wakes the waiters of the semaphore in the order of their arrival)
ThrottleFairness ==
    \A d \in Downloads :
        /\ WF_vars(HttpGetBytesEnds(d))
        /\ SF_vars(HttpGetBytesAcquire(d))

\* the calls that go through the semaphore: _http_get_bytes and its callers
ThrottledNext ==
    \E d \in Downloads :
        \/ HttpGetBytesEnter(d)
        \/ HttpGetBytesAcquire(d)
        \/ HttpGetBytesOk(d)
        \/ HttpGetBytesNon200(d)
        \/ HttpGetBytesRaise(d)
        \/ DownloadReturn(d)

SpecThrottleFair == ThrottleStart /\ [][ThrottledNext]_vars /\ ThrottleFairness

(***************************************************************************)
(* Specification of the token store and the token lifecycle                *)
(***************************************************************************)
TokenStart ==
    /\ WebIdle
    /\ TokenInit
    /\ ThrottleInit
    /\ IngestInit

TokenNext ==
    \/ Tick
    \/ OAuthCallback(reqProvider)
    \/ SetQuickLink(reqProvider)
    \/ DeleteConnection(reqProvider)
    \/ \E t \in Tasks :
          \/ EnumerateStart(t, reqProvider)
          \/ RefreshRejected(t)
          \/ RefreshGranted(t)
          \/ MetaResponse(t)
          \/ ListResponse(t)
          \/ ShareResponse(t)
          \/ SearchResponse(t)
          \/ FetchDone(t)

SpecToken == TokenStart /\ [][TokenNext]_vars

(***************************************************************************)
(* Specification of the item loops of the adapters                         *)
(***************************************************************************)
ItemsStartState ==
    /\ WebIdle
    /\ ThrottleInit
    /\ TokenIdle
    /\ IngestInit

ItemsNext ==
    \/ \E p \in Providers : ItemsStart(p)
    \/ GoogleMetaResponse
    \/ GoogleListResponse
    \/ GoogleItemResponse
    \/ OneDriveShareResponse
    \/ OneDriveItemResponse
    \/ OneDriveMyDriveResponse
    \/ NotionSearchResponse
    \/ ItemsReturn

SpecItems == ItemsStartState /\ [][ItemsNext]_vars

(***************************************************************************)
(* Specification of the content extractor: every call of text_preview and  *)
(* of _preview_pdf_bytes over the bounded inputs                           *)
(***************************************************************************)
ExtractStart ==
    /\ WebIdle
    /\ ThrottleInit
    /\ TokenIdle
    /\ run = IdleRun
    /\ ask = IdleAsk
    /\ history = <<>>
    /\ \/ \E title \in Titles, data \in ByteSequences, max_chars \in Budgets :
             ext = [IdleExt EXCEPT !.pc = "call", !.fn = "text_preview", !.title = title,
                                   !.data = data, !.max_chars = max_chars]
       \/ \E data \in PdfData, max_chars \in Budgets :
             ext = [IdleExt EXCEPT !.pc = "call", !.fn = "_preview_pdf_bytes",
                                   !.data = data, !.max_chars = max_chars]

ExtractNext ==
    \/ CallTextPreview
    \/ CallPreviewPdfBytes

SpecExtract == ExtractStart /\ [][ExtractNext]_vars

(***************************************************************************)
(* Specification of the orchestrator                                       *)
(***************************************************************************)
\* the rows of the user when the request arrives: any set of connections
AskStartState ==
    /\ WebIdle
    /\ ThrottleInit
    /\ IngestInit
    /\ now = Epoch0
    /\ ticks = 0
    /\ issued = 0
    /\ configured = [p \in Providers |-> TRUE]
    /\ reqProvider = "google"
    /\ \E connected \in SUBSET Providers :
          /\ conn = [p \in Providers |->
                        IF p \in connected
                          THEN CHOOSE r \in CallbackRows(p, StoredToken, Epoch0) : TRUE
                          ELSE NoRow]
          /\ lastWrite = [p \in Providers |->
                        IF p \in connected
                          THEN [kind |-> "callback", at |-> Epoch0,
                                expires_in |-> IF p = "notion" THEN None
                                               ELSE conn[p].expires_at - Epoch0 + 60]
                          ELSE NoWrite]
    /\ tasks = [t \in Tasks |-> IdleTask]

AskNext ==
    \/ ChatAskStart
    \/ ChatAskEnumerateReturn
    \/ ChatAskEnumerateRaise
    \/ ChatAskAnswered
    \/ ChatSummarizeStart
    \/ ChatSummarizeEnumerated
    \/ ChatSummarizeAnswered
    \/ \E p \in Providers : AskDisconnect(p)

SpecAsk == AskStartState /\ [][AskNext]_vars

(***************************************************************************)
(* Specification of the orchestrator in a deployment where the client id   *)
(* or secret of one provider is missing and the stored tokens have expired *)
(***************************************************************************)
AskConfigStartState ==
    /\ WebIdle
    /\ ThrottleInit
    /\ IngestInit
    /\ now = Epoch0
    /\ ticks = 0
    /\ issued = 0
    /\ reqProvider = "google"
    /\ \E missing \in Refreshable :
          configured = [p \in Providers |-> p # missing]
    /\ \E connected \in SUBSET Providers :
          /\ conn = [p \in Providers |->
                        IF p \in connected
                          THEN CHOOSE r \in CallbackRows(p, StoredToken, Epoch0) :
                                  p \in Refreshable
                                     => /\ r.refresh_token # None
                                        /\ NeedsRefresh(r.expires_at, Epoch0)
                          ELSE NoRow]
          /\ lastWrite = [p \in Providers |->
                        IF p \in connected
                          THEN [kind |-> "callback", at |-> Epoch0,
                                expires_in |-> IF p = "notion" THEN None
                                               ELSE conn[p].expires_at - Epoch0 + 60]
                          ELSE NoWrite]
    /\ tasks = [t \in Tasks |-> IdleTask]

SpecAskConfig == AskConfigStartState /\ [][AskNext]_vars

(***************************************************************************)
(* Specification of two chat_ask calls over different document caches: the  *)
(* first starts with an empty table, the second with any table; the user   *)
(* has connected no provider or all three                                  *)
(***************************************************************************)
TwinStartState ==
    /\ ThrottleInit
    /\ IngestInit
    /\ now = Epoch0
    /\ ticks = 0
    /\ issued = 0
    /\ configured = [p \in Providers |-> TRUE]
    /\ reqProvider = "google"
    /\ \E connected \in {{}, Providers} :
          /\ conn = [p \in Providers |->
                        IF p \in connected
                          THEN CHOOSE r \in CallbackRows(p, StoredToken, Epoch0) : TRUE
                          ELSE NoRow]
          /\ lastWrite = [p \in Providers |->
                        IF p \in connected
                          THEN [kind |-> "callback", at |-> Epoch0,
                                expires_in |-> IF p = "notion" THEN None
                                               ELSE conn[p].expires_at - Epoch0 + 60]
                          ELSE NoWrite]
    /\ tasks = [t \in Tasks |-> IdleTask]
    /\ \E t \in CacheTables :
          twin = [i \in Runs |-> IF i = 1 THEN IdleTwinRun
                                          ELSE [IdleTwinRun EXCEPT !.cache = t]]
    /\ users = {}
    /\ session = NoSession
    /\ http = NoResponse

TwinNext ==
    \/ TwinChatAskStart
    \/ TwinChatAskEnumerateReturn
    \/ TwinChatAskEnumerateRaise
    \/ TwinChatAskAnswered
    \/ TwinGetCachedDocs

SpecTwin == TwinStartState /\ [][TwinNext]_vars

(***************************************************************************)
(* Specification of the signup requests                                    *)
(***************************************************************************)
SignupStartState ==
    /\ ThrottleInit
    /\ TokenIdle
    /\ IngestInit
    /\ WebIdle

SignupNext == Signup

SpecSignup == SignupStartState /\ [][SignupNext]_vars

(***************************************************************************)
(* Specification of the session-guarded endpoints of app.py: one user with *)
(* any set of connections, one browser                                     *)
(***************************************************************************)
SessionStartState ==
    /\ ThrottleInit
    /\ IngestInit
    /\ now = Epoch0
    /\ ticks = 0
    /\ issued = 0
    /\ configured = [p \in Providers |-> TRUE]
    /\ reqProvider = "google"
    /\ \E connected \in SUBSET Providers :
          /\ conn = [p \in Providers |->
                        IF p \in connected
                          THEN CHOOSE r \in CallbackRows(p, StoredToken, Epoch0) : TRUE
                          ELSE NoRow]
          /\ lastWrite = [p \in Providers |->
                        IF p \in connected
                          THEN [kind |-> "callback", at |-> Epoch0,
                                expires_in |-> IF p = "notion" THEN None
                                               ELSE conn[p].expires_at - Epoch0 + 60]
                          ELSE NoWrite]
    /\ tasks = [t \in Tasks |-> IdleTask]
    /\ twin = [i \in Runs |-> IdleTwinRun]
    /\ users = {UserRow(OwnerName, OwnerPassword, <<>>, <<>>)}
    /\ session = NoSession
    /\ http = NoResponse

SessionNext ==
    \/ AuthLogin
    \/ AuthLogout
    \/ LogoutGet
    \/ Me
    \/ GetConnections
    \/ \E p \in Providers :
          \/ DisconnectProvider(p)
          \/ GetQuickLink(p)
          \/ PostQuickLink(p)

SpecSession == SessionStartState /\ [][SessionNext]_vars

Holders == {d \in Downloads : dl[d].holds}
InFlight == {d \in Downloads : dl[d].pc \in {"get", "gfile", "gexport"}}

\* C1: every in-flight byte download of any adapter (Google direct download,
\* Google native export, OneDrive share item) holds a throttle permit, so at
\* most DL_PERMITS byte downloads are in flight in the process
C1_AllDownloadsThrottled ==
    /\ \A d \in InFlight : dl[d].holds
    /\ Cardinality(InFlight) <= DL_PERMITS

\* C2: at most DL_PERMITS calls of _http_get_bytes are between permit
\* acquisition and permit release, however many calls are in progress
C2_AtMostFourHolders ==
    Cardinality(Holders) <= DL_PERMITS

C2_Witness ==
    /\ Cardinality(Holders) = DL_PERMITS
    /\ \E d \in Downloads : dl[d].pc = "waiting"

\* C3: every acquired permit is released exactly once on each way out (200,
\* non-200, exception): free permits plus held permits are always DL_PERMITS, a
\* permit is held exactly while the GET of _http_get_bytes is in flight, and
\* with no download in flight all DL_PERMITS permits are free
C3_ReleaseMatchesAcquire ==
    /\ permits + Cardinality(Holders) = DL_PERMITS
    /\ \A d \in Downloads : dl[d].holds <=> dl[d].pc = "get"
    /\ (InFlight = {}) => permits = DL_PERMITS

C3_Witness ==
    /\ permits = DL_PERMITS
    /\ InFlight = {}
    /\ \E d1, d2, d3 \in Downloads :
          /\ dl[d1].pc = "done" /\ dl[d1].res = "bytes"
          /\ dl[d2].pc = "done" /\ dl[d2].res = "empty"
          /\ dl[d3].pc = "done" /\ dl[d3].res = "caught"

\* C29: a call blocked on the throttle eventually gets a permit, given that
\* every GET in flight ends and the blocked calls are resumed fairly
C29_BlockedEventuallyAcquires ==
    \A d \in Downloads : (dl[d].pc = "waiting") ~> (dl[d].pc = "get" /\ dl[d].holds)

C29_Witness ==
    \E d \in Downloads :
        /\ dl[d].waited
        /\ dl[d].pc = "get"
        /\ dl[d].holds
        /\ permits = 0

(***************************************************************************)
(* Claims about the token store and the token lifecycle                    *)
(***************************************************************************)
\* the step in which refresh_token() of task t receives a 200 and writes the row
GrantedStep(t) ==
    /\ tasks[t].pc = "refresh"
    /\ tasks'[t] # tasks[t]
    /\ issued' = issued + 1

\* C4: when the refresh response omits a refresh token (the stored one is then
\* not the token of this response), the write keeps the refresh token stored
\* before it and replaces access token, scope and expiry by the response's
C4_RefreshKeepsRefreshToken ==
    [][\A t \in Tasks :
          LET p == tasks[t].prov IN
          (GrantedStep(t) /\ conn[p].exists /\ conn'[p].refresh_token # issued')
             => /\ conn'[p].refresh_token = conn[p].refresh_token
                /\ conn'[p].access_token = issued'
                /\ conn'[p].scope = issued'
                /\ \E e \in ExpiresIns : conn'[p].expires_at \in {now + e, now + e - Margin}]_vars

\* C5: a token refresh leaves provider_account_id, provider_account_email and
\* the meta mapping (with its quick_link) of the row as they were
C5_RefreshKeepsAccountAndMeta ==
    [][\A t \in Tasks :
          LET p == tasks[t].prov IN
          (GrantedStep(t) /\ conn[p].exists)
             => /\ conn'[p].meta = conn[p].meta
                /\ conn'[p].provider_account_id = conn[p].provider_account_id
                /\ conn'[p].provider_account_email = conn[p].provider_account_email]_vars

\* C6: the stored expiry of a token written by an OAuth callback or a refresh is
\* (time of the write + expires_in - 60), and the margin is not applied again
\* when the row is read to decide on a refresh
C6_MarginAtWriteNotAtRead ==
    /\ \A p \in Providers :
          (conn[p].exists /\ lastWrite[p].kind \in {"callback", "refresh"}
                          /\ lastWrite[p].expires_in # None)
             => conn[p].expires_at = lastWrite[p].at + lastWrite[p].expires_in - Margin
    /\ \A t \in Tasks : ~tasks[t].marginAtRead

\* C7: when the refresh that _get_valid_token needs fails (status other than
\* 200, or no refresh token stored), the call ends without any authenticated
\* call having been issued and enumerate returns the empty list
C7_FailedRefreshYieldsEmpty ==
    \A t \in Tasks :
        (tasks[t].prov \in Refreshable /\ tasks[t].gvtFail)
           => /\ tasks[t].nAuth = 0
              /\ tasks[t].pc = "done"
              /\ tasks[t].result = "empty"

\* C8: a call of _get_valid_token that finds a stored token whose expiry is at
\* least 60 seconds ahead issues no refresh request, leaves the store unchanged
\* and returns the stored access token; so do two such calls in succession
C8_FreshTokenNoRefresh ==
    [][\A t \in Tasks :
          LET p == tasks'[t].prov IN
          (tasks'[t].gvt = tasks[t].gvt + 1 /\ tasks[t].pc # "refresh"
              /\ conn[p].exists /\ conn[p].expires_at >= now + Margin)
             => /\ tasks'[t].nRefresh = tasks[t].nRefresh
                /\ tasks'[t].pc # "refresh"
                /\ issued' = issued
                /\ conn' = conn
                /\ tasks'[t].token = conn[p].access_token]_vars

C8_Witness ==
    \E t1, t2 \in Tasks :
        /\ t1 # t2
        /\ tasks[t1].prov = tasks[t2].prov
        /\ tasks[t1].gvt = 1 /\ tasks[t2].gvt = 1
        /\ tasks[t1].nRefresh = 0 /\ tasks[t2].nRefresh = 0
        /\ tasks[t1].token # None
        /\ tasks[t1].token = tasks[t2].token
        /\ tasks[t1].token = conn[tasks[t1].prov].access_token
        /\ issued = 0

\* C9 (as stated): an enumerate call that starts with a stored token of
\* expiresAt = now - 1 issues exactly one refresh request, completed before its
\* first authenticated call
C9_ExactlyOneRefreshPerEnumerate ==
    \A t \in Tasks :
        tasks[t].exp1Start
           => /\ tasks[t].nRefresh <= 1
              /\ tasks[t].pc = "done" => tasks[t].nRefresh = 1
              /\ tasks[t].nAuth >= 1 => tasks[t].refAtFirstAuth = 1

\* C9 (amended): when the Google or OneDrive adapter reads a stored token of
\* expiresAt = now - 1, with a refresh token stored and the client credentials
\* configured, exactly one refresh request has been issued and has completed
\* when the adapter's first authenticated metadata or listing call is issued
C9_OneRefreshBeforeFirstCall ==
    \A t \in Tasks :
        (tasks[t].prov \in Refreshable /\ tasks[t].exp1Read /\ tasks[t].rtRead
                                       /\ configured[tasks[t].prov])
           => /\ tasks[t].nRefresh >= 1
              /\ tasks[t].nAuth >= 1 => tasks[t].refAtFirstAuth = 1
              /\ (tasks[t].pc = "refresh" /\ tasks[t].stage = "gvt")
                    => (tasks[t].nAuth = 0 /\ tasks[t].nRefresh = 1)

C9_Witness ==
    \E t \in Tasks :
        /\ tasks[t].prov \in Refreshable /\ tasks[t].exp1Read /\ tasks[t].rtRead
        /\ configured[tasks[t].prov]
        /\ tasks[t].nAuth >= 1 /\ tasks[t].refAtFirstAuth = 1
        /\ tasks[t].pc \in {"meta", "list"}

\* C10: in the OneDrive adapter a 401 of the listing call is followed by one
\* refresh request and one retry of the listing call, never more, and a 401 of
\* the retry makes enumerate return the empty list
C10_OneRefreshOneRetryOn401 ==
    \A t \in Tasks :
        (tasks[t].prov = "onedrive" /\ tasks[t].after401)
           => /\ tasks[t].nRef401 <= 1
              /\ tasks[t].attempt <= 2
              /\ tasks[t].second401 => (tasks[t].pc = "done" /\ tasks[t].result = "empty")

\* C24: under every interleaving of refreshes of the same provider, the stored
\* refresh token is the last one the provider issued: the write of a refresh
\* keeps the stored refresh token or replaces it by the one of its own
\* response, and never puts back an older one over a newer one that a
\* concurrent refresh has stored
C24_ConcurrentRefreshKeepsNewestToken ==
    [][\A t \in Tasks :
          LET p == tasks[t].prov IN
          (GrantedStep(t) /\ conn[p].exists)
             => conn'[p].refresh_token \in {conn[p].refresh_token, issued'}]_vars

\* access token, refresh token, token type, scope and expiry of a row
TokenFields(row) ==
    <<row.access_token, row.refresh_token, row.token_type, row.scope, row.expires_at>>

\* the step of an OAuth callback of provider p: a token was handed out and
\* stored, and no enumerate call moved
CallbackStep(p) ==
    /\ issued' = issued + 1
    /\ tasks' = tasks
    /\ lastWrite'[p].kind = "callback"

\* C26: the token fields of a stored row change only in a token-refresh step
\* or an OAuth callback: an enumerate call with a token that has not expired,
\* setting the quick link and every other step leave them as they are
C26_TokenFieldsChangeOnlyInRefreshOrCallback ==
    [][\A p \in Providers :
          (conn'[p].exists /\ TokenFields(conn'[p]) # TokenFields(conn[p]))
             => \/ CallbackStep(p)
                \/ \E t \in Tasks : GrantedStep(t) /\ tasks[t].prov = p]_vars

C26_Witness ==
    \E t \in Tasks :
        /\ tasks[t].pc = "done" /\ tasks[t].result = "docs"
        /\ tasks[t].nRefresh = 0 /\ tasks[t].nAuth >= 1
        /\ issued = 0
        /\ conn[tasks[t].prov].exists
        /\ conn[tasks[t].prov].meta.quick_link # None
        /\ conn[tasks[t].prov].access_token = StoredToken
        /\ conn[tasks[t].prov].refresh_token = StoredToken

\* C28: once delete_connection has removed the row of a provider, no row for
\* it exists until the next OAuth callback: a row comes into existence in a
\* callback step only, also when a refresh that had read the refresh token
\* before the deletion writes its result after it
C28_DeletedStaysDeletedUntilCallback ==
    [][\A p \in Providers :
          (~conn[p].exists /\ conn'[p].exists) => CallbackStep(p)]_vars

\* C35: after set_quick_link(provider, url) the quick link read back for the
\* provider is that url until the next set_quick_link or the deletion of the
\* connection, whatever else happens to the connection (token refreshes,
\* ingestion requests); the model has one url, so a later set_quick_link
\* stores the same value
C35_QuickLinkPersists ==
    [][\A p \in Providers :
          (/\ conn[p].exists
           /\ conn[p].meta.quick_link # None
           /\ conn'[p].exists)
             => conn'[p].meta.quick_link = conn[p].meta.quick_link]_vars

\* the refresh POSTs issued inside the first call of _get_valid_token of an
\* enumerate call (those not after the 401 of list_my_drive), and inside the
\* second call, which follows the refresh_token() that list_my_drive itself
\* calls after a 401
RefreshesOfFirstCall(tk) == tk.nRefresh - tk.nRef401
RefreshesOfSecondCall(tk) == IF tk.gvt = 2 THEN tk.nRef401 - 1 ELSE 0

\* C32: each call of _get_valid_token issues at most one refresh request: a
\* rejected refresh is not tried again inside the call, a granted one is not
\* repeated
C32_OneRefreshPerGetValidToken ==
    \A t \in Tasks :
       /\ tasks[t].gvt <= 2
       /\ RefreshesOfFirstCall(tasks[t]) <= 1
       /\ RefreshesOfSecondCall(tasks[t]) <= 1

\* a call of _get_valid_token whose refresh request was rejected has returned
\* after that single request, and another one whose request was granted
C32_Witness ==
    \E t, u \in Tasks :
       /\ tasks[t].pc = "done" /\ tasks[t].gvt = 1 /\ tasks[t].gvtFail
       /\ RefreshesOfFirstCall(tasks[t]) = 1
       /\ tasks[u].pc = "done" /\ tasks[u].gvt = 1 /\ ~tasks[u].gvtFail
       /\ RefreshesOfFirstCall(tasks[u]) = 1

(***************************************************************************)
(* Claims about the adapters' calls and item loops                         *)
(***************************************************************************)
\* C11: in the Google Drive adapter a 401 answer to a metadata, folder-listing,
\* download or export call is followed by a token refresh (and then one retry
\* of the call): once the 401 is handled, the adapter waits for the refresh
C11_Google401RefreshAndRetry ==
    (run.prov = "google" /\ run.got401 # "none") => run.pc = "refresh"

\* C14: a failure on one item of a listing (download error, export failure, a
\* missing id, a size that is not a number) yields a placeholder for that item
\* only: enumerate returns, and its list has one document per item of the
\* listing, in order.  Google folder loop and OneDrive share-children loop
C14_ItemFailureStaysLocal ==
    (run.pc = "done" /\ run.prov \in {"google", "onedrive"} /\ run.listed
                     /\ run.items # <<>>)
       => /\ run.result = "returned"
          /\ Len(run.docs) = Len(run.items)
          /\ \A i \in DOMAIN run.items :
                 run.items[i].id # None => run.docs[i].id = run.items[i].id

\* C18: every document an adapter's enumerate returns has a text that is
\* recovered content or a placeholder beginning with "[", never the empty text
C18_NoEmptyText ==
    (run.pc = "done" /\ run.result = "returned")
       => \A i \in DOMAIN run.docs : run.docs[i].content # <<>>

\* C22: for a leaf item whose reported size exceeds MAX_PREVIEW_BYTES no byte
\* download is issued, and its text in the result is the type-only
\* placeholder.  Google Drive files and OneDrive share children
C22_OversizeNeverDownloaded ==
    (run.prov \in {"google", "onedrive"} /\ ~run.fellBack)
       => \A i \in DOMAIN run.items :
             (run.items[i].size > MAX_PREVIEW_BYTES
                 /\ (run.prov = "onedrive" => ~run.items[i].folder))
                => /\ i \notin run.fetched
                   /\ i \in DOMAIN run.docs
                         => run.docs[i].content \in {TypePlaceholder, OneDriveFilePlaceholder}

\* C23: an empty link means the provider's default scope: the Google adapter,
\* called with an empty link and a usable token, issues a request to the
\* provider instead of returning the empty list without one
C23_EmptyLinkSearchesEverything ==
    (run.prov = "google" /\ run.pc # "idle" /\ run.link = EmptyLink) => run.called

\* C27: for every link and every search response, the text of every document
\* the Notion adapter returns is a placeholder beginning with "[", so none of
\* them passes the chunk filter of chat_ask or of chat_summarize
C27_NotionTextIsPlaceholder ==
    (run.pc = "done" /\ run.prov = "notion" /\ run.result = "returned")
       => /\ \A i \in DOMAIN run.docs :
                /\ run.docs[i].content # <<>>
                /\ Head(run.docs[i].content) = "["
          /\ AskChunks(run.docs) = <<>>
          /\ ValidDocs(run.docs) = <<>>

C27_Witness ==
    /\ run.pc = "done" /\ run.prov = "notion" /\ run.result = "returned"
    /\ run.link # EmptyLink
    /\ Len(run.docs) = MaxItems
    /\ \E i, j \in DOMAIN run.items :
          run.items[i].object = "page" /\ run.items[j].object = "database"

\* C30: the list enumerate_from_link(user, link, max_files) returns has at
\* most max_files documents, whatever the provider answers, also a listing or
\* a search response with more entries than the page size asked for
C30_AtMostMaxFilesDocuments ==
    (run.pc = "done" /\ run.result = "returned") => Len(run.docs) <= run.max_files

\* C31: the OneDrive adapter looks the public share up before anything else
\* (the root listing with its token read is only called after the lookup), and
\* whenever the lookup failed (status other than 200, an exception while the
\* response is processed, no children) it returns the listing of the user's
\* own root folder that list_my_drive gave
C31_ShareFirstThenRootListing ==
    /\ run.root.called => run.fellBack
    /\ (run.pc = "done" /\ run.prov = "onedrive" /\ run.fellBack) =>
          /\ run.root.called
          /\ run.result = "returned"
          /\ run.docs = run.root.docs

(***************************************************************************)
(* Claims about the content extractor                                      *)
(***************************************************************************)
\* the readers of the path the call takes all fail on the bytes: the archive
\* cannot be opened or the part cannot be read; both PDF backends raise
ReadersFail ==
    LET name == Lower(ext.title)
        z == ext.data.zip
    IN  CASE ext.fn = "_preview_pdf_bytes" \/ EndsWith(name, ".pdf") ->
                 ext.data.pdf.fitz = "raises" /\ ext.data.pdf.miner = "raises"
          [] ext.fn = "text_preview" /\ EndsWith(name, ".docx") ->
                 z.family = "corrupt" \/ (z.family = "word" /\ z.body = Unreadable)
          [] ext.fn = "text_preview" /\ EndsWith(name, ".xlsx") ->
                 z.family = "corrupt" \/ (z.family = "xl" /\ z.body = Unreadable)
          [] ext.fn = "text_preview" /\ EndsWith(name, ".pptx") ->
                 z.family = "corrupt"
                    \/ (z.family = "ppt" /\ \E i \in DOMAIN z.slides : z.slides[i] = Unreadable)
          [] OTHER -> FALSE

\* the call goes through the PDF or the office branch
BinaryPath ==
    \/ ext.fn = "_preview_pdf_bytes"
    \/ EndsWith(Lower(ext.title), ".pdf")
    \/ \E e \in OFFICE_EXTS : EndsWith(Lower(ext.title), e)

\* C19: text_preview is total: for every file name (any suffix, any letter
\* case, none) and every byte sequence it returns a string and raises nothing;
\* when the readers fail on the bytes, or the PDF or office branch recovers no
\* text, the result is the placeholder "[binary N bytes]"
C19_TextPreviewTotal ==
    ext.pc = "done"
       => /\ ~ext.out.raised
          /\ ReadersFail => ext.out.text = BinaryPlaceholder(ext.data)
          /\ BinaryPath => ext.out.text # <<>>

C19_Witness ==
    /\ ext.pc = "done"
    /\ ext.fn = "text_preview"
    /\ ext.title = ".PPTX"
    /\ ext.data.zip.family = "corrupt"
    /\ ~ext.out.raised
    /\ ext.out.text = <<"[", "b", ToString(ext.data.len)>>

\* C20: on every extraction path and for every budget, when the
\* whitespace-collapsed extracted text is longer than the budget, the output
\* is the first budget characters of that text followed by the marker " ...",
\* and nothing else
C20_TruncatedIsPrefixPlusMarker ==
    LET collapsed == Strip(Collapse(ext.out.raw)) IN
    (ext.pc = "done" /\ ~ext.out.failed /\ Len(collapsed) > ext.budget)
       => /\ Len(ext.out.text) = ext.budget + Len(Ellipsis)
          /\ ext.out.text = SubSeq(collapsed, 1, ext.budget) \o Ellipsis

\* every run of the part is whitespace: nothing is left after stripping
BlankPart(part) ==
    \A i \in DOMAIN part.runs : \A j \in DOMAIN part.runs[i] :
        part.runs[i][j] \in Whitespace

\* the parts the office branch reads for this file name yield no text
OfficeTextEmpty ==
    LET name == Lower(ext.title)
        z == ext.data.zip
    IN  CASE EndsWith(name, ".docx") /\ z.family = "word" -> BlankPart(z.body)
          [] EndsWith(name, ".xlsx") /\ z.family = "xl" -> BlankPart(z.body)
          [] EndsWith(name, ".pptx") /\ z.family = "ppt" ->
                 \A s \in DOMAIN z.slides : BlankPart(z.slides[s])
          [] OTHER -> TRUE

\* C21: for a file name ending in .docx, .pptx or .xlsx (any letter case),
\* when the bytes cannot be opened as an archive, a needed part cannot be read
\* or no text is left after tag stripping, text_preview returns exactly
\* "[binary N bytes]" with N the length of the byte sequence
C21_OfficeFailureGivesPlaceholder ==
    (ext.pc = "done" /\ ext.fn = "text_preview"
        /\ (\E e \in OFFICE_EXTS : EndsWith(Lower(ext.title), e))
        /\ (ReadersFail \/ OfficeTextEmpty))
       => /\ ~ext.out.raised
          /\ ext.out.text = <<"[", "b", ToString(ext.data.len)>>

C21_Witness ==
    /\ ext.pc = "done"
    /\ ext.fn = "text_preview"
    /\ ext.title = ".XLSX"
    /\ ext.data.zip.family = "xl"
    /\ ext.data.zip.body.readable
    /\ ext.data.zip.body.runs = <<<<" ">>>>
    /\ ext.out.text = <<"[", "b", "9">>

(***************************************************************************)
(* Claims about the orchestrator                                           *)
(***************************************************************************)
\* the documents of provider p in the batch
ProviderPart(p) == SelectSeq(ask.all_docs, LAMBDA d : d.provider = p)

\* the collection loop of chat_ask is over
Collected ==
    ask.endpoint = "ask" /\ ask.pc \in {"answer", "done"} /\ ask.response # "400"

\* C12: the failure of a provider's enumerate never reaches the caller of
\* chat_ask, and the batch holds every document of every requested provider
\* whose own turn went through
C12_ProviderFailureIsolated ==
    /\ ask.response # "raised"
    /\ ask.endpoint = "ask"
          => \A p \in Providers :
                ask.outcome[p] = "ok" => ProviderPart(p) = Tagged(ask.returned[p], p)

C12_Witness ==
    /\ Collected
    /\ ask.pc = "done"
    /\ ask.invoked = AutoOrder
    /\ \E p \in Providers :
          /\ ask.outcome[p] = "raised"
          /\ \A q \in Providers \ {p} :
                /\ ask.outcome[q] = "ok"
                /\ ask.returned[q] # <<>>
                /\ ProviderPart(q) = Tagged(ask.returned[q], q)

\* C13: a provider whose turn failed (enumerate raised, or the cache write of
\* one of its documents raised) contributes no document to the batch
C13_FailedProviderContributesNothing ==
    \A p \in Providers :
        ask.outcome[p] \in {"raised", "cachefail"} => ProviderPart(p) = <<>>

\* C25: when the provider the caller named has no client id or secret and its
\* token needs a refresh, the request ends with a configuration error shown
\* to the caller, not with the answer that no documents were found
C25_MissingCredentialsSurface ==
    (ask.endpoint = "ask" /\ ask.pc = "done" /\ ask.provider \notin {"", "auto"}
        /\ ProviderLower(ask.provider) \in Providers
        /\ ask.outcome[ProviderLower(ask.provider)] = "config")
       => ask.response = "config_error"

\* C15: the adapters chat_ask invokes are those of the resolved provider set,
\* in order: the named provider alone, or in automatic mode the providers that
\* had a stored connection when the request arrived; when the loop is over,
\* all of them have been invoked and no other
C15_ExactlyResolvedSetInvoked ==
    LET expected ==
            IF ask.provider \notin {"", "auto"}
              THEN IF ProviderLower(ask.provider) \in Providers
                     THEN <<ProviderLower(ask.provider)>>
                     ELSE <<>>
              ELSE SelectSeq(AutoOrder, LAMBDA p : p \in ask.connectedAtStart)
    IN  ask.endpoint = "ask"
           => /\ Len(ask.invoked) <= Len(expected)
              /\ ask.invoked = SubSeq(expected, 1, Len(ask.invoked))
              /\ Collected => ask.invoked = expected

C15_Witness ==
    /\ Collected
    /\ ask.provider = "auto"
    /\ ask.connectedAtStart = {"google", "notion"}
    /\ ask.invoked = <<"google", "notion">>
    /\ ~conn["notion"].exists

\* the batch the claim C16 describes: the lists of the providers whose turn
\* went through, in processing order
RECURSIVE SuccessfulLists(_)
SuccessfulLists(ps) ==
    IF ps = <<>> THEN <<>>
    ELSE (IF Head(ps) \in Providers /\ ask.outcome[Head(ps)] = "ok"
            THEN Tagged(ask.returned[Head(ps)], Head(ps))
            ELSE <<>>) \o SuccessfulLists(Tail(ps))

\* C16: the batch is the concatenation, in processing order, of the lists of
\* the successful providers, each in its own order and with its provider
\* field; nothing is dropped or merged for equal title or content
C16_BatchIsConcatenation ==
    Collected => ask.all_docs = SuccessfulLists(ask.providers_to_check)

\* the documents of the batch (chat_ask: all_docs, chat_summarize: docs) with
\* readable text
ReadableOfBatch ==
    SelectSeq(IF ask.endpoint = "ask" THEN ask.all_docs ELSE ask.docs,
              LAMBDA d : d.content # <<>> /\ d.content[1] # "[")

\* C17: the answer function is called at most once per request, never with a
\* chunk whose text is empty or begins with "[": its chunks are the documents
\* of the batch with readable text, in batch order, and it is not called when
\* there is none
C17_AnswerGetsOnlyContent ==
    /\ Len(ask.answerArgs) <= 1
    /\ \A i \in DOMAIN ask.answerArgs : \A j \in DOMAIN ask.answerArgs[i] :
          /\ ask.answerArgs[i][j].content # <<>>
          /\ ask.answerArgs[i][j].content[1] # "["
    /\ (ask.pc \in {"answer", "done"} /\ ask.response # "400")
          => IF ReadableOfBatch = <<>>
               THEN ask.answerArgs = <<>>
               ELSE /\ Len(ask.answerArgs) = 1
                    /\ Len(ask.answerArgs[1]) = Len(ReadableOfBatch)
                    /\ \A j \in DOMAIN ReadableOfBatch :
                          /\ ask.answerArgs[1][j].title = ReadableOfBatch[j].title
                          /\ ask.answerArgs[1][j].content = ReadableOfBatch[j].content

C17_Witness ==
    /\ ask.endpoint = "ask"
    /\ ask.response = "answered"
    /\ \E i, j, k \in DOMAIN ask.all_docs :
          /\ ask.all_docs[i].content = <<>>
          /\ ask.all_docs[j].content = <<"[", "b">>
          /\ ask.all_docs[k].content = <<"a">>
    /\ Len(ask.answerArgs) = 1
    /\ Len(ask.answerArgs[1]) < Len(ask.all_docs)
(***************************************************************************)
(* Claims about the document cache                                         *)
(***************************************************************************)
\* what a call of chat_ask gives: the documents collected, the chunks passed
\* to answer_with_gemini, the kind of response and its sources list
AskResult(a) ==
    [documents |-> a.all_docs, chunks |-> a.answerArgs, response |-> a.response,
     sources |-> AskSources(a)]

\* C33: the result of an ingestion request (documents, chunks passed to the
\* answer step, sources list) does not depend on the contents of
\* document_cache: two runs of the same request with the same adapter results
\* and the same token store give the same result whatever their caches hold
C33_ResultIndependentOfCache ==
    /\ AskResult(twin[1].ask) = AskResult(twin[2].ask)
    /\ twin[1].ask.pc = twin[2].ask.pc
    /\ twin[1].history = twin[2].history

\* both runs were answered from documents, and GET /chat/cached-docs shows
\* that their caches hold different rows
C33_Witness ==
    /\ \A i \in Runs : twin[i].ask.pc = "done" /\ twin[i].ask.response = "answered"
    /\ \A i \in Runs : twin[i].cached.asked
    /\ twin[1].cached.documents # twin[2].cached.documents
    /\ \E p \in Providers : twin[1].cache[p].there /\ twin[1].cache[p] # twin[2].cache[p]
    /\ AskResult(twin[1].ask) = AskResult(twin[2].ask)

GuardedOps == {"me", "connections", "disconnect", "get_quick_link", "set_quick_link"}

\* C36: /me, GET /connections, DELETE /connections/{provider} and GET and POST
\* /connections/quick-link answer 401 and leave the store unchanged whenever
\* the session holds no user (before a login whose password check succeeded,
\* after a logout)
C36_NoSessionNoAccess ==
    [][(/\ http'.n # http.n
        /\ http'.op \in GuardedOps
        /\ ~session.has)
          => /\ http'.status = 401
             /\ conn' = conn
             /\ lastWrite' = lastWrite
             /\ users' = users
             /\ session' = session]_vars

\* the user logged in and stored a quick link, the session was cleared, and
\* the DELETE that followed was answered 401 with the connection still stored
C36_Witness ==
    /\ ~session.has
    /\ http.op = "disconnect" /\ http.status = 401
    /\ \E p \in Providers : conn[p].exists /\ conn[p].meta.quick_link # None

\* two names that are equal when the case of their letters is ignored
SameIgnoringCase(n1, n2) ==
    /\ Len(n1) = Len(n2)
    /\ \A i \in 1..Len(n1) : n1[i].letter = n2[i].letter

\* C37: after any sequence of signup requests no two stored users have user
\* names that are equal ignoring letter case
C37_UserNamesUniqueIgnoringCase ==
    \A r1, r2 \in users :
       SameIgnoringCase(r1.user_name, r2.user_name) => r1 = r2

====
